---------------------------- MODULE Spec2Model ----------------------------
(***************************************************************************)
(* A model of the stone build/provision orchestration engine:             *)
(*   - the unit conversions (convert_to_blocks, convert_size_to_mb,       *)
(*     extract_size_from_build_args),                                     *)
(*   - the partition layout loop of calculate_avocado_env_vars,           *)
(*   - the provision, build and validate command sequencers.              *)
(* Every command runs on a manifest that has been parsed already; the     *)
(* manifest is immutable during a run.                                    *)
(***************************************************************************)
EXTENDS Integers, Sequences, FiniteSets, Bags, TLC

VARIABLES
    overflow_checks,  \* the build profile: TRUE = arithmetic overflow panics, FALSE = it wraps
    cSize,            \* conversion input: the declared magnitude (i64)
    cUnit,            \* conversion input: the declared unit string
    cBlockSize,       \* conversion input: the block size (u32)
    cFn,              \* which conversion has been applied ("none" before)
    cResult,          \* the conversion's result
    lBlockSize,       \* layout: device.block_size (Option<u32>)
    lParts,           \* layout: device.partitions, in manifest order
    lIdx,             \* layout: the number of partitions the loop has processed
    current_offset,   \* layout: the running cumulative offset (u64, in blocks)
    lOffsets,         \* layout: partition_offset of every processed partition
    lSizes,           \* layout: partition_size of every processed partition
    lStatus,          \* layout: "running", or how the computation ended
    manifest,         \* provision/build: the parsed manifest (immutable)
    pPc,              \* provision: the position in provision_command
    pCur,             \* provision: the device of the current loop iteration
    pDevTodo,         \* provision: devices the device loop has not reached yet
    pImgTodo,         \* provision: images of pCur the image loop has not reached yet
    pLog,             \* provision: the steps started so far, each with its outcome
    pResult,          \* provision: "running", or what provision_command returned
    bPc,              \* build: the position in build_command
    bCur,             \* build: the device of the current loop iteration
    bDevTodo,         \* build: devices the device loop has not reached yet
    bImgTodo,         \* build: images of bCur the image loop has not reached yet
    bAttempted,       \* build: the (device, image) pairs process_image was called for
    bFailed,          \* build: the (device, image) pairs process_image returned Err for
    errors,           \* build: the collected error entries, in the order they were pushed
    bResult,          \* build: what build_command returned
    vManifest,        \* validate: the parsed manifest, with the file names it references
    vExists,          \* validate: the file names found in some input directory
    vPc,              \* validate: the position in validate_command
    vDevTodo,         \* validate: devices the device loop has not reached yet
    missing_files,            \* validate: Vec of (device, image, filename), up to order
    missing_device_files,     \* validate: Vec of (device, filename), up to order
    missing_provision_files,  \* validate: Vec of (type, filename), up to order
    vResult,          \* validate: what validate_command returned
    named_envs,       \* resolve: provision.envs (Option: the shared blocks by name)
    rEnvs,            \* resolve: profile.envs (Option: the ordered reference list)
    rProfile,         \* resolve: the name the profile is registered under
    rIdx,             \* resolve: the number of list entries the loop has processed
    resolved_envs,    \* resolve: the mapping built so far
    rResult,          \* resolve: what resolve_envs returned
    environ,          \* expand: the process environment (name -> Option value)
    eEnvs,            \* expand: the mapping given to expand_env_vars
    eTodo,            \* expand: keys the loop has not reached yet
    eKey,             \* expand: the key of the current loop iteration
    result,           \* expand: expand_single_env_var's working string
    eSubst,           \* expand: the number of substitutions made in the current value
    expanded,         \* expand: the mapping built so far
    ePc,              \* expand: the position in expand_env_vars
    dInputDir,        \* device env: input_dir, as given on the command line
    dOsVersion,       \* device env: what read_os_release_info found (Option)
    dUuid,            \* device env: device.uuid (Option<String>)
    dImages,          \* device env: device.images (a HashMap: name -> image)
    dImgTodo,         \* device env: images the image loop has not reached yet
    env_vars,         \* device env: the mapping built so far
    fImage,           \* fwup: the image build_fwup_image is called for
    fPc,              \* fwup: the position in the build of a device
    image_cmd_env,    \* fwup: the variables set on the command of the image build
    device_cmd_env,   \* fwup: the variables set on the command of the device build
    fFiles,           \* fat: the file list of the image's build arguments
    fInputs,          \* fat: the files of the input directory (name -> Option content)
    fat_fs,           \* fat: the tree of the image (path -> directory or file content)
    fIdx,             \* fat: the number of entries the file loop has processed
    fResult,          \* fat: "running", or what generate_fat_image returned
    biSize,           \* fat image: the declared size of the image (i64)
    biUnit,           \* fat image: the declared size_unit
    biPc,             \* fat image: the position in build_fat_image
    temp_manifest,    \* fat image: whether temp_manifest_<image>.json exists in build_dir
    container_len,    \* fat image: the length of the output file (Option<u64>, in bytes)
    biResult,         \* fat image: what build_fat_image returned
    provision_exists, \* script: whether input_dir/provision_file exists
    sPc,              \* script: the position of the main thread in execute_provision_script
    cProgram,         \* script: the lines the child process is going to write
    cExit,            \* script: the exit code the child process is going to exit with
    cPos,             \* script: the number of lines the child process has written
    child,            \* script: the child process: not spawned, running, exited or killed
    stdout_pipe,      \* script: every line written to the child's standard output so far
    stderr_pipe,      \* script: every line written to the child's standard error so far
    stdout_read,      \* script: the number of stdout lines the reader thread has taken
    stderr_read,      \* script: the number of stderr lines the reader thread has taken
    stdout_handle,    \* script: the stdout reader thread: not spawned, running or done
    stderr_handle,    \* script: the stderr reader thread: not spawned, running or done
    stdout_sink,      \* script: the lines printed with println!, in order
    stderr_sink,      \* script: the lines printed with eprintln!, in order
    sResult,          \* script: what execute_provision_script returned
    os_release,       \* os-release: the file os-release of the input directory
    oPc,              \* os-release: the position in build_fwup_with_env_vars
    os_env,           \* os-release: the environment derived for the packager
    oFwup,            \* os-release: how the packager fwup ended, "none" if never started
    oResult           \* os-release: what build_fwup_with_env_vars returned

convVars == <<cSize, cUnit, cBlockSize, cFn, cResult>>

layVars == <<lBlockSize, lParts, lIdx, current_offset, lOffsets, lSizes, lStatus>>

provVars == <<pPc, pCur, pDevTodo, pImgTodo, pLog, pResult>>

buildVars == <<bPc, bCur, bDevTodo, bImgTodo, bAttempted, bFailed, errors, bResult>>

valVars == <<vManifest, vExists, vPc, vDevTodo, missing_files, missing_device_files,
             missing_provision_files, vResult>>

envVars == <<named_envs, rEnvs, rProfile, rIdx, resolved_envs, rResult>>

expVars == <<environ, eEnvs, eTodo, eKey, result, eSubst, expanded, ePc>>

\* the state of the machines defined after the command sequencers
devVars == <<dInputDir, dOsVersion, dUuid, dImages, dImgTodo, env_vars>>

fwVars == <<fImage, fPc, image_cmd_env, device_cmd_env>>

fatVars == <<fFiles, fInputs, fat_fs, fIdx, fResult>>

\* the state of the machines defined after the fwup builds
fatImgVars == <<biSize, biUnit, biPc, temp_manifest, container_len, biResult>>

runVars == <<provision_exists, sPc, cProgram, cExit, cPos, child, stdout_pipe, stderr_pipe,
             stdout_read, stderr_read, stdout_handle, stderr_handle, stdout_sink,
             stderr_sink, sResult>>

relVars == <<os_release, oPc, os_env, oFwup, oResult>>

lastVars == <<runVars, relVars>>

laterVars == <<fatVars, fatImgVars, lastVars>>

moreVars == <<envVars, expVars, devVars, fwVars, laterVars>>

vars == <<overflow_checks, convVars, layVars, manifest, provVars, buildVars, valVars, moreVars>>

NONE == "none"

(***************************************************************************)
(* Bounds of the model.                                                    *)
(***************************************************************************)
MaxMagnitude == 3

MaxParts == 3

MaxImages == 2

(***************************************************************************)
(* u64 arithmetic.  A u64 is four 16-bit limbs, least significant first,   *)
(* so that a cast of a negative i64, a wrapping product and a wrapping     *)
(* sum are computed exactly as the machine computes them.                  *)
(***************************************************************************)
LimbBase == 2^16

U64Zero == <<0, 0, 0, 0>>

\* a natural number below 2^31 as a u64
U64FromNat(n) == <<n % LimbBase, n \div LimbBase, 0, 0>>

\* x + y: the wrapped sum and whether it overflowed
U64Add(x, y) ==
    LET s1 == x[1] + y[1]
        s2 == x[2] + y[2] + (s1 \div LimbBase)
        s3 == x[3] + y[3] + (s2 \div LimbBase)
        s4 == x[4] + y[4] + (s3 \div LimbBase)
    IN  [val |-> <<s1 % LimbBase, s2 % LimbBase, s3 % LimbBase, s4 % LimbBase>>,
         overflow |-> s4 \div LimbBase > 0]

\* x * k for a small k (k <= 1024): the wrapped product and whether it overflowed
U64MulSmall(x, k) ==
    LET p1 == x[1] * k
        p2 == x[2] * k + (p1 \div LimbBase)
        p3 == x[3] * k + (p2 \div LimbBase)
        p4 == x[4] * k + (p3 \div LimbBase)
    IN  [val |-> <<p1 % LimbBase, p2 % LimbBase, p3 % LimbBase, p4 % LimbBase>>,
         overflow |-> p4 \div LimbBase > 0]

\* x / d, truncating, for a divisor 0 < d < 2^15
U64DivSmall(x, d) ==
    LET t4 == x[4]
        t3 == (t4 % d) * LimbBase + x[3]
        t2 == (t3 % d) * LimbBase + x[2]
        t1 == (t2 % d) * LimbBase + x[1]
    IN  <<t1 \div d, t2 \div d, t3 \div d, t4 \div d>>

\* `size as u64`: a negative i64 becomes 2^64 - |size|
U64FromI64(size) ==
    IF size >= 0
    THEN U64FromNat(size)
    ELSE LET m == U64FromNat(-size)
             inv == <<LimbBase - 1 - m[1], LimbBase - 1 - m[2],
                      LimbBase - 1 - m[3], LimbBase - 1 - m[4]>>
         IN  U64Add(inv, U64FromNat(1)).val

\* x * k * k * ... (n factors k), left to right, as `x * 1024 * 1024`
RECURSIVE U64MulPow(_, _, _)
U64MulPow(x, k, n) ==
    IF n = 0
    THEN [val |-> x, overflow |-> FALSE]
    ELSE LET r == U64MulPow(x, k, n - 1)
             m == U64MulSmall(r.val, k)
         IN  [val |-> m.val, overflow |-> r.overflow \/ m.overflow]

(***************************************************************************)
(* Results: Ok(val), Err(msg, unit) or a panic (the process aborts).      *)
(***************************************************************************)
Ok(v) == [tag |-> "Ok", val |-> v, msg |-> "", unit |-> ""]

Err(m, u) == [tag |-> "Err", val |-> U64Zero, msg |-> m, unit |-> u]

Panic == [tag |-> "Panic", val |-> U64Zero, msg |-> "", unit |-> ""]

NoResult == [tag |-> NONE, val |-> U64Zero, msg |-> "", unit |-> ""]

(***************************************************************************)
(* Unit strings.                                                           *)
(***************************************************************************)
\* the closed set of units of the manifest schema
ClosedUnits ==
    {"bytes", "kilobytes", "kibibytes", "megabytes", "mebibytes",
     "gigabytes", "gibibytes", "terabytes", "tebibytes", "blocks"}

\* the unit strings a manifest of the model may carry
UnitStrings ==
    ClosedUnits \cup {"b", "kb", "mib", "block", "Bytes", "MiB", "parsecs"}

\* str::to_lowercase on the modelled strings
ToLower(s) ==
    CASE s = "Bytes" -> "bytes"
      [] s = "MiB" -> "mib"
      [] OTHER -> s


(***************************************************************************)
(* convert_to_blocks (provision.rs): partition sizes and offsets.          *)
(***************************************************************************)
\* the number of factors 1024 the match arm of a (lowercased) unit applies,
\* -1 for the catch-all arm
BlocksUnitShift(lu) ==
    CASE lu \in {"bytes", "byte", "b"} -> 0
      [] lu \in {"kilobytes", "kilobyte", "kb", "kibibytes", "kibibyte", "kib"} -> 1
      [] lu \in {"megabytes", "megabyte", "mb", "mebibytes", "mebibyte", "mib"} -> 2
      [] lu \in {"gigabytes", "gigabyte", "gb", "gibibytes", "gibibyte", "gib"} -> 3
      [] OTHER -> -1

convert_to_blocks(size, unit, block_size) ==
    LET lu == ToLower(unit)
    IN  IF lu \in {"blocks", "block"}
        THEN Ok(U64FromI64(size))
        ELSE IF BlocksUnitShift(lu) < 0
        THEN Err("Unsupported size unit", unit)
        ELSE LET bytes == U64MulPow(U64FromI64(size), 1024, BlocksUnitShift(lu))
             IN  IF bytes.overflow /\ overflow_checks
                 THEN Panic
                 ELSE IF block_size = 0
                 THEN Panic
                 ELSE Ok(U64DivSmall(bytes.val, block_size))

(***************************************************************************)
(* convert_size_to_mb (provision.rs): the size of a FAT image, in f64.     *)
(* The magnitudes of the model are far below 2^53, where f64 is exact.     *)
(***************************************************************************)
\* <<multiplier, divisor>> of the match arm of a (lowercased) unit
MbUnitScale(lu) ==
    CASE lu \in {"bytes", "byte", "b"} -> <<1, 1024 * 1024>>
      [] lu \in {"kilobytes", "kilobyte", "kb", "kibibytes", "kibibyte", "kib"} -> <<1, 1024>>
      [] lu \in {"megabytes", "megabyte", "mb", "mebibytes", "mebibyte", "mib"} -> <<1, 1>>
      [] lu \in {"gigabytes", "gigabyte", "gb", "gibibytes", "gibibyte", "gib"} -> <<1024, 1>>
      [] OTHER -> <<0, 0>>

convert_size_to_mb(size, size_unit) ==
    LET sc == MbUnitScale(ToLower(size_unit))
    IN  IF sc = <<0, 0>>
        THEN Err("Unsupported size unit", size_unit)
        ELSE IF size <= 0
        THEN Err("Image size must be positive", "")
        ELSE Ok(U64FromNat((size * sc[1] + sc[2] - 1) \div sc[2]))   \* ceil

(***************************************************************************)
(* extract_size_from_build_args (build.rs): the size of a FAT image of the *)
(* build command, in MiB; None when "size" is absent or not a u64.         *)
(***************************************************************************)
None == [tag |-> "None", val |-> U64Zero, msg |-> "", unit |-> ""]

\* <<factor, number of factors, number of divisions by 1024>> of a unit's arm
ExtractUnitScale(u) ==
    CASE u = "bytes" -> <<1, 0, 2>>
      [] u = "kibibytes" -> <<1, 0, 1>>
      [] u = "mebibytes" -> <<1, 0, 0>>
      [] u = "gibibytes" -> <<1024, 1, 0>>
      [] u = "tebibytes" -> <<1024, 2, 0>>
      [] u = "kilobytes" -> <<1000, 1, 2>>
      [] u = "megabytes" -> <<1000, 2, 2>>
      [] u = "gigabytes" -> <<1000, 3, 2>>
      [] u = "terabytes" -> <<1000, 4, 2>>
      [] OTHER -> <<1, 0, 0>>          \* "Default to assuming megabytes"

RECURSIVE U64DivPow(_, _, _)
U64DivPow(x, d, n) == IF n = 0 THEN x ELSE U64DivPow(U64DivSmall(x, d), d, n - 1)

extract_size_from_build_args(size, size_unit) ==
    IF size < 0
    THEN None                          \* as_u64() of a negative number
    ELSE LET u == IF size_unit = NONE THEN "megabytes" ELSE size_unit
             sc == ExtractUnitScale(u)
             prod == U64MulPow(U64FromNat(size), sc[1], sc[2])
         IN  IF prod.overflow /\ overflow_checks
             THEN Panic
             ELSE Ok(U64DivPow(prod.val, 1024, sc[3]))

(***************************************************************************)
(* The conversions as a state machine: the inputs are drawn in the initial *)
(* state and one conversion is applied to them.                            *)
(***************************************************************************)
Magnitudes ==
    ((-MaxMagnitude) .. MaxMagnitude) \cup {m * 1024 : m \in 1 .. MaxMagnitude}
        \cup {m * 1000 : m \in 1 .. MaxMagnitude}

BlockSizes == {0, 512, 4096}

ConvIdle ==
    /\ cSize = 0
    /\ cUnit = NONE
    /\ cBlockSize = 0
    /\ cFn = NONE
    /\ cResult = NoResult

ConvInit ==
    /\ overflow_checks \in BOOLEAN
    /\ cSize \in Magnitudes
    /\ cUnit \in UnitStrings \cup {NONE}
    /\ cBlockSize \in BlockSizes
    /\ cFn = NONE
    /\ cResult = NoResult

ConvertToBlocks ==
    /\ cFn = NONE
    /\ cUnit # NONE
    /\ cFn' = "convert_to_blocks"
    /\ cResult' = convert_to_blocks(cSize, cUnit, cBlockSize)
    /\ UNCHANGED <<overflow_checks, cSize, cUnit, cBlockSize, layVars, manifest, provVars, buildVars, valVars, moreVars>>

ConvertSizeToMb ==
    /\ cFn = NONE
    /\ cUnit # NONE
    /\ cFn' = "convert_size_to_mb"
    /\ cResult' = convert_size_to_mb(cSize, cUnit)
    /\ UNCHANGED <<overflow_checks, cSize, cUnit, cBlockSize, layVars, manifest, provVars, buildVars, valVars, moreVars>>

ExtractSize ==
    /\ cFn = NONE
    /\ cFn' = "extract_size_from_build_args"
    /\ cResult' = extract_size_from_build_args(cSize, cUnit)
    /\ UNCHANGED <<overflow_checks, cSize, cUnit, cBlockSize, layVars, manifest, provVars, buildVars, valVars, moreVars>>

ConvNext == ConvertToBlocks \/ ConvertSizeToMb \/ ExtractSize


(***************************************************************************)
(* The partition layout loop of calculate_avocado_env_vars (provision.rs). *)
(***************************************************************************)
DefaultBlockSize == 512

Some(v) == [some |-> TRUE, v |-> v]

Absent == [some |-> FALSE, v |-> 0]

\* device.block_size.unwrap_or(512)
block_size == IF lBlockSize.some THEN lBlockSize.v ELSE DefaultBlockSize

\* the declared geometry of a partition: size and size_unit are required,
\* offset and offset_unit are optional
PartitionSizes ==
    {<<-1, "blocks">>, <<0, "blocks">>, <<3, "blocks">>,
     <<3, "kibibytes">>, <<3, "parsecs">>}

PartitionOffsets ==
    {<<Absent, NONE>>, <<Some(5), NONE>>, <<Some(1), "kibibytes">>}

\* an absent Option<String>; a present one is Some of a sequence of characters
NoString == [some |-> FALSE, v |-> <<>>]

\* partitions without a name: they contribute no key to the environment
PartitionChoices ==
    {[name |-> NoString, offset |-> o[1], offset_unit |-> o[2],
      offset_redundant |-> Absent, offset_redundant_unit |-> NONE,
      size |-> sz[1], size_unit |-> sz[2], expand |-> NoString] :
        o \in PartitionOffsets, sz \in PartitionSizes}

DeviceBlockSizes == {Absent, Some(0), Some(1024)}

SeqsUpTo(S, n) == UNION {[1 .. k -> S] : k \in 0 .. n}

(***************************************************************************)
(* The device environment (calculate_avocado_env_vars): a mapping from     *)
(* keys to values.  A key or a string value is a sequence of pieces (a     *)
(* literal of the source, or one character of a manifest name); a path is  *)
(* the sequence of its components, the first being "/" when the path is    *)
(* absolute.                                                               *)
(***************************************************************************)
MaxEnvParts == 2

\* a string value, and the decimal rendering of a number (u.to_string())
Str(text) == [kind |-> "str", text |-> text, num |-> U64Zero]

Num(u) == [kind |-> "num", text |-> <<>>, num |-> u]

EmptyEnv == [k \in {} |-> Str(<<>>)]

\* HashMap::insert: the new value replaces an older one under the same key
Insert(m, k, v) == [x \in DOMAIN m \cup {k} |-> IF x = k THEN v ELSE m[x]]

\* Path::is_absolute and Path::join: an absolute argument replaces the base
is_absolute(path) == Len(path) > 0 /\ path[1] = "/"

join(base, path) == IF is_absolute(path) THEN path ELSE base \o path

\* let build_dir = input_dir.join("_build")
build_dir == join(dInputDir, <<"_build">>)

\* char::to_uppercase on the characters manifest names are made of here
ToUpperChar(c) ==
    CASE c = "a" -> "A"
      [] c = "b" -> "B"
      [] OTHER -> c

to_uppercase(name) == [i \in DOMAIN name |-> ToUpperChar(name[i])]

\* str::replace(['-', ' '], "_")
replace_hyphen_space(name) ==
    [i \in DOMAIN name |-> IF name[i] \in {"-", " "} THEN "_" ELSE name[i]]

\* format!("AVOCADO_IMAGE_{name_upper}")
ImageKey(image_name) == <<"AVOCADO_IMAGE_">> \o to_uppercase(image_name)

\* format!("AVOCADO_PARTITION_{name_upper}{suffix}")
PartitionKey(partition_name, suffix) ==
    <<"AVOCADO_PARTITION_">> \o replace_hyphen_space(to_uppercase(partition_name)) \o <<suffix>>

\* the images of a device: Image::String(filename), Image::Object with and
\* without build_args; `out` holds the filename of an Image::String
ImageNames == {<<"a">>, <<"A">>}

ImageChoices ==
    {[kind |-> "string", out |-> <<"boot.img">>, build_args |-> FALSE],
     [kind |-> "object", out |-> <<"out.img">>, build_args |-> TRUE],
     [kind |-> "object", out |-> <<"raw.img">>, build_args |-> FALSE],
     [kind |-> "object", out |-> <<"/", "x.img">>, build_args |-> TRUE]}

ImageMaps == UNION {[D -> ImageChoices] : D \in SUBSET ImageNames}

NoImages == [n \in {} |-> CHOOSE c \in ImageChoices : TRUE]

\* the match in the image loop: where the image file is
image_path(image) ==
    IF image.kind = "string"
    THEN join(dInputDir, image.out)                 \* input_dir.join(filename)
    ELSE IF image.build_args
    THEN join(build_dir, image.out)                 \* build_dir.join(out)
    ELSE join(dInputDir, image.out)                 \* input_dir.join(out)

\* the partitions of a device that carry names
NamedPartitionChoices ==
    {[name |-> NoString, offset |-> Absent, offset_unit |-> NONE,
      offset_redundant |-> Absent, offset_redundant_unit |-> NONE,
      size |-> 3, size_unit |-> "blocks", expand |-> NoString],
     [name |-> Some(<<"a", "-", "b">>), offset |-> Absent, offset_unit |-> NONE,
      offset_redundant |-> Absent, offset_redundant_unit |-> NONE,
      size |-> 3, size_unit |-> "blocks", expand |-> NoString],
     [name |-> Some(<<"a", " ", "b">>), offset |-> Absent, offset_unit |-> NONE,
      offset_redundant |-> Some(2), offset_redundant_unit |-> NONE,
      size |-> 3, size_unit |-> "kibibytes", expand |-> Some(<<"true">>)],
     [name |-> Some(<<"b">>), offset |-> Absent, offset_unit |-> NONE,
      offset_redundant |-> Some(1), offset_redundant_unit |-> "kibibytes",
      size |-> 3, size_unit |-> "blocks", expand |-> NoString],
     [name |-> Some(<<"b">>), offset |-> Some(5), offset_unit |-> NONE,
      offset_redundant |-> Absent, offset_redundant_unit |-> NONE,
      size |-> 3, size_unit |-> "blocks", expand |-> Some(<<"true">>)],
     [name |-> Some(<<"a", "-", "b">>), offset |-> Absent, offset_unit |-> NONE,
      offset_redundant |-> Some(2), offset_redundant_unit |-> "parsecs",
      size |-> 3, size_unit |-> "blocks", expand |-> NoString]}

\* the redundant offset of partition p converted to blocks
RedundantOffset(p) ==
    convert_to_blocks(p.offset_redundant.v,
                      IF p.offset_redundant_unit = NONE
                      THEN "blocks" ELSE p.offset_redundant_unit,
                      block_size)

\* the keys the partition loop sets for partition p
PartitionVars(m, p, partition_offset, partition_size) ==
    LET m1 == Insert(m, PartitionKey(p.name.v, "_OFFSET"), Num(partition_offset))
        m2 == Insert(m1, PartitionKey(p.name.v, "_BLOCKS"), Num(partition_size))
        m3 == IF p.offset_redundant.some
              THEN Insert(m2, PartitionKey(p.name.v, "_OFFSET_REDUND"),
                          Num(RedundantOffset(p).val))
              ELSE m2
        m4 == IF p.expand.some
              THEN Insert(m3, PartitionKey(p.name.v, "_EXPAND"), Str(p.expand.v))
              ELSE m3
    IN  IF p.name.some THEN m4 ELSE m

DevIdle ==
    /\ dInputDir = <<>>
    /\ dOsVersion = NoString
    /\ dUuid = NoString
    /\ dImages = NoImages
    /\ dImgTodo = {}
    /\ env_vars = EmptyEnv

LayIdle ==
    /\ lBlockSize = Absent
    /\ lParts = <<>>
    /\ lIdx = 0
    /\ current_offset = U64Zero
    /\ lOffsets = <<>>
    /\ lSizes = <<>>
    /\ lStatus = NONE

LayInit ==
    /\ overflow_checks \in BOOLEAN
    /\ lBlockSize \in DeviceBlockSizes
    /\ lParts \in SeqsUpTo(PartitionChoices, MaxParts)
    /\ lIdx = 0
    /\ current_offset = U64Zero               \* let mut current_offset = 0u64
    /\ lOffsets = <<>>
    /\ lSizes = <<>>
    /\ lStatus = "running"

\* the offset of partition p: its explicit offset converted, else the running offset
PartitionOffset(p) ==
    IF p.offset.some
    THEN convert_to_blocks(p.offset.v,
                           IF p.offset_unit = NONE THEN "blocks" ELSE p.offset_unit,
                           block_size)
    ELSE Ok(current_offset)

\* the value the loop leaves in current_offset after a partition
NextOffset(partition_offset, partition_size) == U64Add(partition_offset, partition_size)

\* one iteration of `for partition in &device.partitions`
LayoutStep ==
    /\ lStatus = "running"
    /\ dImgTodo = {}
    /\ lIdx < Len(lParts)
    /\ LET p == lParts[lIdx + 1]
           off == PartitionOffset(p)
           sz == convert_to_blocks(p.size, p.size_unit, block_size)
           red == IF p.name.some /\ p.offset_redundant.some
                  THEN RedundantOffset(p) ELSE Ok(U64Zero)
           nxt == NextOffset(off.val, sz.val)
       IN  IF off.tag # "Ok"                      \* `?` on the offset conversion
           THEN /\ lStatus' = off.tag
                /\ UNCHANGED <<lIdx, current_offset, lOffsets, lSizes, env_vars>>
           ELSE IF sz.tag # "Ok"                  \* `?` on the size conversion
           THEN /\ lStatus' = sz.tag
                /\ UNCHANGED <<lIdx, current_offset, lOffsets, lSizes, env_vars>>
           ELSE IF red.tag # "Ok"                 \* `?` on the redundant offset
           THEN /\ lStatus' = red.tag
                /\ UNCHANGED <<lIdx, current_offset, lOffsets, lSizes, env_vars>>
           ELSE IF nxt.overflow /\ overflow_checks
           THEN /\ lStatus' = "Panic"
                /\ UNCHANGED <<lIdx, current_offset, lOffsets, lSizes, env_vars>>
           ELSE /\ lOffsets' = Append(lOffsets, off.val)
                /\ lSizes' = Append(lSizes, sz.val)
                /\ env_vars' = PartitionVars(env_vars, p, off.val, sz.val)
                /\ current_offset' = nxt.val
                /\ lIdx' = lIdx + 1
                /\ UNCHANGED lStatus
    /\ UNCHANGED <<overflow_checks, lBlockSize, lParts, convVars, manifest, provVars,
                   buildVars, valVars, envVars, expVars,
                   dInputDir, dOsVersion, dUuid, dImages, dImgTodo, fwVars, laterVars>>

\* the loop ends: Ok(env_vars)
LayoutFinish ==
    /\ lStatus = "running"
    /\ dImgTodo = {}
    /\ lIdx = Len(lParts)
    /\ lStatus' = "Ok"
    /\ UNCHANGED <<overflow_checks, lBlockSize, lParts, lIdx, current_offset,
                   lOffsets, lSizes, convVars, manifest, provVars, buildVars, valVars, moreVars>>

LayNext == LayoutStep \/ LayoutFinish

\* a device, an input directory and an os-release file to derive from
DevEnvInit ==
    /\ overflow_checks = FALSE
    /\ dInputDir \in {<<".">>, <<"/", "work">>}
    /\ dOsVersion \in {NoString, Some(<<"1.0">>)}
    /\ dUuid \in {NoString, Some(<<"uuid-1">>)}
    /\ dImages \in ImageMaps
    /\ dImgTodo = DOMAIN dImages
    /\ env_vars = EmptyEnv                    \* let mut env_vars = HashMap::new()
    /\ lBlockSize \in {Absent, Some(1024)}
    /\ lParts \in SeqsUpTo(NamedPartitionChoices, MaxEnvParts)
    /\ lIdx = 0
    /\ current_offset = U64Zero
    /\ lOffsets = <<>>
    /\ lSizes = <<>>
    /\ lStatus = "start"

\* the os-release fields (absent optional fields are empty strings) and the
\* platform and architecture of manifest.runtime
OsVars(m) ==
    LET m1 == Insert(m, <<"AVOCADO_OS_VERSION">>, Str(dOsVersion.v))
        m2 == Insert(m1, <<"AVOCADO_OS_CODENAME">>, Str(<<>>))
        m3 == Insert(m2, <<"AVOCADO_OS_DESCRIPTION">>, Str(<<>>))
        m4 == Insert(m3, <<"AVOCADO_OS_AUTHOR">>, Str(<<>>))
        m5 == Insert(m4, <<"AVOCADO_OS_PLATFORM">>, Str(<<"platform">>))
    IN  Insert(m5, <<"AVOCADO_OS_ARCHITECTURE">>, Str(<<"architecture">>))

\* the disk keys: each only if the device declares the field
DiskVars(m) ==
    LET m1 == IF lBlockSize.some
              THEN Insert(m, <<"AVOCADO_DISK_BLOCK_SIZE">>, Num(U64FromNat(lBlockSize.v)))
              ELSE m
    IN  IF dUuid.some THEN Insert(m1, <<"AVOCADO_DISK_UUID">>, Str(dUuid.v)) ELSE m1

\* read_os_release_info(input_dir)? and the inserts that follow it
EnvHeader ==
    /\ lStatus = "start"
    /\ IF ~dOsVersion.some                    \* no os-release file, or no VERSION_ID
       THEN /\ lStatus' = "Err"
            /\ UNCHANGED env_vars
       ELSE /\ lStatus' = "running"
            /\ env_vars' = DiskVars(OsVars(env_vars))
    /\ UNCHANGED <<overflow_checks, lBlockSize, lParts, lIdx, current_offset, lOffsets,
                   lSizes, convVars, manifest, provVars, buildVars, valVars, envVars,
                   expVars, dInputDir, dOsVersion, dUuid, dImages, dImgTodo, fwVars, laterVars>>

\* one iteration of `for (image_name, image) in &device.images`; the order
\* in which a HashMap yields its entries is not determined
EnvImage ==
    /\ lStatus = "running"
    /\ \E image_name \in dImgTodo :
        /\ env_vars' = Insert(env_vars, ImageKey(image_name),
                              Str(image_path(dImages[image_name])))
        /\ dImgTodo' = dImgTodo \ {image_name}
    /\ UNCHANGED <<overflow_checks, layVars, convVars, manifest, provVars, buildVars,
                   valVars, envVars, expVars, dInputDir, dOsVersion, dUuid, dImages, fwVars, laterVars>>

DevEnvNext == EnvHeader \/ EnvImage \/ LayoutStep \/ LayoutFinish

(***************************************************************************)
(* The two fwup builds of a device (provision.rs): build_fwup_image for an *)
(* image with Fwup build arguments, then build_fwup_with_env_vars for the  *)
(* device.  The variables are those given to the Command with cmd.env.     *)
(***************************************************************************)
\* an Image::Object with Fwup build arguments, by its optional disk fields
FwupImages ==
    {[block_size |-> b, uuid |-> u] :
        b \in {Absent, Some(4096)}, u \in {NoString, Some(<<"uuid-2">>)}}

NoFwupImage == [block_size |-> Absent, uuid |-> NoString]

\* a faulty per-image environment that falls back to the default block size
ImageFwupVarsWithDefault(image) ==
    LET b == IF image.block_size.some THEN image.block_size.v ELSE DefaultBlockSize
        m1 == Insert(EmptyEnv, <<"AVOCADO_DISK_BLOCK_SIZE">>, Num(U64FromNat(b)))
    IN  IF image.uuid.some THEN Insert(m1, <<"AVOCADO_DISK_UUID">>, Str(image.uuid.v)) ELSE m1

\* the variables build_fwup_image sets: image.block_size() and image.uuid()
ImageFwupVars(image) ==
    LET m1 == IF image.block_size.some
              THEN Insert(EmptyEnv, <<"AVOCADO_DISK_BLOCK_SIZE">>,
                          Num(U64FromNat(image.block_size.v)))
              ELSE EmptyEnv
    IN  IF image.uuid.some THEN Insert(m1, <<"AVOCADO_DISK_UUID">>, Str(image.uuid.v)) ELSE m1

FwIdle ==
    /\ fImage = NoFwupImage
    /\ fPc = NONE
    /\ image_cmd_env = EmptyEnv
    /\ device_cmd_env = EmptyEnv

\* a device with Fwup build arguments and one image with Fwup build arguments
FwupInit ==
    /\ overflow_checks = FALSE
    /\ fImage \in FwupImages
    /\ fPc = "image"
    /\ image_cmd_env = EmptyEnv
    /\ device_cmd_env = EmptyEnv
    /\ dInputDir = <<"/", "work">>
    /\ dOsVersion \in {NoString, Some(<<"1.0">>)}
    /\ dUuid \in {NoString, Some(<<"uuid-1">>)}
    /\ dImages \in {m \in ImageMaps : DOMAIN m \subseteq {<<"a">>}}
    /\ dImgTodo = DOMAIN dImages
    /\ env_vars = EmptyEnv
    /\ lBlockSize \in {Absent, Some(1024)}
    /\ lParts \in SeqsUpTo(NamedPartitionChoices, MaxEnvParts)
    /\ lIdx = 0
    /\ current_offset = U64Zero
    /\ lOffsets = <<>>
    /\ lSizes = <<>>
    /\ lStatus = NONE

\* build_fwup_image: the command gets the image's own disk variables; when
\* fwup succeeds the device build follows and derives the device environment
FwupImage ==
    /\ fPc = "image"
    /\ image_cmd_env' = ImageFwupVars(fImage)
    /\ \E success \in BOOLEAN :
        IF success
        THEN fPc' = "device" /\ lStatus' = "start"
        ELSE fPc' = "Err" /\ UNCHANGED lStatus
    /\ UNCHANGED <<overflow_checks, lBlockSize, lParts, lIdx, current_offset, lOffsets,
                   lSizes, convVars, manifest, provVars, buildVars, valVars, envVars,
                   expVars, devVars, fImage, device_cmd_env, laterVars>>

\* build_fwup_with_env_vars after calculate_avocado_env_vars returned Ok:
\* cmd.env(key, value) for every derived variable
FwupDevice ==
    /\ fPc = "device"
    /\ lStatus = "Ok"
    /\ device_cmd_env' = env_vars
    /\ fPc' = "spawned"
    /\ UNCHANGED <<overflow_checks, layVars, convVars, manifest, provVars, buildVars,
                   valVars, envVars, expVars, devVars, fImage, image_cmd_env,
                   laterVars>>

FwupNext == FwupImage \/ EnvHeader \/ EnvImage \/ LayoutStep \/ LayoutFinish \/ FwupDevice

(***************************************************************************)
(* The FAT build of an image (create_fat_manifest in provision.rs, then    *)
(* the file loop of generate_fat_image in fat.rs).  The image is a tree: a *)
(* function from paths (sequences of names) to nodes, a node being a       *)
(* directory or a file with its content (a sequence of bytes).             *)
(***************************************************************************)
MaxFatFiles == 3

\* manifest::FileEntry: String(filename) or Object { input, output }; a path
\* is given by its components
FileString(filename) == [kind |-> "string", input |-> filename, output |-> <<filename>>]

FileObject(input, output) == [kind |-> "object", input |-> input, output |-> output]

FatFileEntries ==
    {FileString("f1"), FileString("f3"),
     FileObject("f2", <<"d", "f2">>), FileObject("f1", <<"d", "g">>),
     FileObject("f2", <<"f1">>), FileObject("f1", <<"d">>)}

FatContents == {<<1, 2>>, <<3>>}

\* the input directory: f1 and f2 exist, f3 does not
InputDirs ==
    {[n \in {"f1", "f2", "f3"} |-> IF n = "f3" THEN [some |-> FALSE, v |-> <<>>]
                                   ELSE Some(IF n = "f1" THEN c1 ELSE c2)] :
        c1 \in FatContents, c2 \in FatContents}

\* create_fat_manifest: filename is the input, output only for an Object
create_fat_manifest(files) ==
    [i \in DOMAIN files |->
        [filename |-> Some(files[i].input),
         output |-> IF files[i].kind = "string"
                    THEN [some |-> FALSE, v |-> <<>>] ELSE Some(files[i].output)]]

\* the file loop's input_path and output_path of a fat::FileEntry
input_path(entry) == entry.filename.v

output_path(entry) == IF entry.output.some THEN entry.output.v ELSE <<entry.filename.v>>

DirNode == [dir |-> TRUE, data |-> <<>>]

FileNode(data) == [dir |-> FALSE, data |-> data]

EmptyFs == [p \in {} |-> DirNode]

\* dir.create_dir(name).or_else(|_| dir.open_dir(name)) for the directory at
\* `path`: created if absent, opened if it is a directory, an error if a
\* file has that name
create_dir(fs, path) ==
    IF path \notin DOMAIN fs
    THEN [ok |-> TRUE, fs |-> [p \in DOMAIN fs \cup {path} |-> IF p = path THEN DirNode ELSE fs[p]]]
    ELSE [ok |-> fs[path].dir, fs |-> fs]

\* the loop over the components before the last one
RECURSIVE create_parents(_, _, _)
create_parents(fs, path, k) ==
    IF k = 0
    THEN [ok |-> TRUE, fs |-> fs]
    ELSE LET before == create_parents(fs, path, k - 1)
         IN  IF before.ok THEN create_dir(before.fs, SubSeq(path, 1, k)) ELSE before

\* dir.create_file(file_name) and write_all(&file_data): create_file opens a
\* file that exists without truncating it, and the write starts at its
\* first byte; an error if a directory has that name
create_and_write(fs, path, file_data) ==
    IF path \in DOMAIN fs /\ fs[path].dir
    THEN [ok |-> FALSE, fs |-> fs]
    ELSE LET old == IF path \in DOMAIN fs THEN fs[path].data ELSE <<>>
             data == file_data \o SubSeq(old, Len(file_data) + 1, Len(old))
         IN  [ok |-> TRUE,
              fs |-> [p \in DOMAIN fs \cup {path} |-> IF p = path THEN FileNode(data) ELSE fs[p]]]

\* add_file_to_fat
add_file_to_fat(fs, input, output) ==
    IF ~fInputs[input].some                      \* fs::read fails
    THEN [ok |-> FALSE, fs |-> fs]
    ELSE LET parents == create_parents(fs, output, Len(output) - 1)
         IN  IF parents.ok
             THEN create_and_write(parents.fs, output, fInputs[input].v)
             ELSE parents

\* the files an image lists: the paths of its files
list_fat_files(fs) == {p \in DOMAIN fs : ~fs[p].dir}

FatIdle ==
    /\ fFiles = <<>>
    /\ fInputs = [n \in {} |-> NoString]
    /\ fat_fs = EmptyFs
    /\ fIdx = 0
    /\ fResult = NONE

\* after format_volume: an empty root directory (manifest.directories is None)
FatInit ==
    /\ fFiles \in SeqsUpTo(FatFileEntries, MaxFatFiles)
    /\ fInputs \in InputDirs
    /\ fat_fs = EmptyFs
    /\ fIdx = 0
    /\ fResult = "running"

\* one iteration of `for entry in manifest.files.iter()`
FatAddFile ==
    /\ fResult = "running"
    /\ fIdx < Len(fFiles)
    /\ LET entry == create_fat_manifest(fFiles)[fIdx + 1]
           added == add_file_to_fat(fat_fs, input_path(entry), output_path(entry))
       IN  /\ fat_fs' = added.fs
           /\ IF added.ok
              THEN fIdx' = fIdx + 1 /\ UNCHANGED fResult
              ELSE fResult' = "Err" /\ UNCHANGED fIdx       \* `?`
    /\ UNCHANGED <<fFiles, fInputs, overflow_checks, convVars, layVars, manifest, provVars,
                   buildVars, valVars, envVars, expVars, devVars, fwVars, fatImgVars,
                   lastVars>>

\* the loop ends: Ok(())
FatFinish ==
    /\ fResult = "running"
    /\ fIdx = Len(fFiles)
    /\ fResult' = "Ok"
    /\ UNCHANGED <<fFiles, fInputs, fat_fs, fIdx, overflow_checks, convVars, layVars,
                   manifest, provVars, buildVars, valVars, envVars, expVars, devVars, fwVars,
                   fatImgVars, lastVars>>

FatNext == FatAddFile \/ FatFinish

(***************************************************************************)
(* build_fat_image (provision.rs): the size in MiB, the temporary manifest *)
(* in the build directory, the container file, the file loop above, and    *)
(* the removal of the temporary manifest.                                  *)
(***************************************************************************)
NoLength == [some |-> FALSE, v |-> U64Zero]

\* img_file.set_len(options.size_mb * 1024 * 1024)
container_bytes(size_mb) == U64MulPow(size_mb, 1024, 2)

\* a faulty build that returns the result before it removes the manifest
ManifestAfterBuildKept(exists) == exists

\* let _ = fs::remove_file(&temp_manifest_path)
ManifestAfterBuild(exists) == FALSE

FatImgIdle ==
    /\ biSize = 0
    /\ biUnit = NONE
    /\ biPc = NONE
    /\ temp_manifest = FALSE
    /\ container_len = NoLength
    /\ biResult = NONE

\* an image with Fat build arguments: its size, unit and file list
FatImgInit ==
    /\ overflow_checks \in BOOLEAN
    /\ biSize \in Magnitudes
    /\ biUnit \in UnitStrings
    /\ biPc = "convert"
    /\ temp_manifest = FALSE
    /\ container_len = NoLength
    /\ biResult = "running"
    /\ fFiles \in {<<>>, <<FileString("f1")>>, <<FileString("f3")>>}
    /\ fInputs \in InputDirs
    /\ fat_fs = EmptyFs
    /\ fIdx = 0
    /\ fResult = NONE

\* let size_mb = convert_size_to_mb(*params.size, params.size_unit)?
BfConvert ==
    /\ biPc = "convert"
    /\ IF convert_size_to_mb(biSize, biUnit).tag = "Ok"
       THEN biPc' = "manifest" /\ UNCHANGED biResult
       ELSE biPc' = "returned" /\ biResult' = "Err"
    /\ UNCHANGED <<biSize, biUnit, temp_manifest, container_len, fatVars, overflow_checks,
                   convVars, layVars, manifest, provVars, buildVars, valVars, envVars,
                   expVars, devVars, fwVars, lastVars>>

\* fs::write(&temp_manifest_path, manifest_json): the file is there, or `?`
BfWriteManifest ==
    /\ biPc = "manifest"
    /\ \E written \in BOOLEAN :
        IF written
        THEN temp_manifest' = TRUE /\ biPc' = "container" /\ UNCHANGED biResult
        ELSE biPc' = "returned" /\ biResult' = "Err" /\ UNCHANGED temp_manifest
    /\ UNCHANGED <<biSize, biUnit, container_len, fatVars, overflow_checks,
                   convVars, layVars, manifest, provVars, buildVars, valVars, envVars,
                   expVars, devVars, fwVars, lastVars>>

\* fat::create_fat_image up to the file loop: the output file is opened and
\* set to its length, then the volume is formatted (which can fail)
BfContainer ==
    /\ biPc = "container"
    /\ LET bytes == container_bytes(convert_size_to_mb(biSize, biUnit).val)
       IN  IF bytes.overflow /\ overflow_checks
           THEN /\ biPc' = "returned"
                /\ biResult' = "Panic"
                /\ UNCHANGED <<container_len, fResult>>
           ELSE /\ container_len' = Some(bytes.val)
                /\ \E formatted \in BOOLEAN :
                    fResult' = IF formatted THEN "running" ELSE "Err"
                /\ biPc' = "files"
                /\ UNCHANGED biResult
    /\ UNCHANGED <<biSize, biUnit, temp_manifest, fFiles, fInputs, fat_fs, fIdx,
                   overflow_checks, convVars, layVars, manifest, provVars, buildVars,
                   valVars, envVars, expVars, devVars, fwVars, lastVars>>

\* let result = create_fat_image(..); let _ = fs::remove_file(..); result?; Ok(())
BfCleanup ==
    /\ biPc = "files"
    /\ fResult \in {"Ok", "Err"}
    /\ temp_manifest' = ManifestAfterBuild(temp_manifest)
    /\ biResult' = fResult
    /\ biPc' = "returned"
    /\ UNCHANGED <<biSize, biUnit, container_len, fatVars, overflow_checks,
                   convVars, layVars, manifest, provVars, buildVars, valVars, envVars,
                   expVars, devVars, fwVars, lastVars>>

FatImgNext == BfConvert \/ BfWriteManifest \/ BfContainer \/ FatAddFile \/ FatFinish \/ BfCleanup

(***************************************************************************)
(* read_os_release_info (provision.rs) and its use by the device-level     *)
(* fwup build.  The file is missing, unreadable, or a sequence of lines    *)
(* KEY=value; a value is a sequence of characters.                         *)
(***************************************************************************)
MaxOsLines == 2

DQ == "\""

SQ == "'"

OsReleaseKeys == {"VERSION_ID", "VERSION_CODENAME", "PRETTY_NAME", "VENDOR_NAME", "NAME"}

OsReleaseValues ==
    {<<>>, <<"1">>, <<DQ, "1", DQ>>, <<SQ, "1", SQ>>, <<DQ, "1", " ", "0", DQ, " ">>,
     <<SQ, DQ, "1", DQ, SQ>>}

OsReleaseLines == [key : OsReleaseKeys, value : OsReleaseValues]

NoFile == [state |-> "missing", lines |-> <<>>]

OsReleaseFiles ==
    {NoFile, [state |-> "unreadable", lines |-> <<>>]}
        \cup {[state |-> "file", lines |-> l] : l \in SeqsUpTo(OsReleaseLines, MaxOsLines)}

\* str::trim_end on a value at the end of a line (line.trim())
RECURSIVE trim_end(_)
trim_end(text) ==
    IF text # <<>> /\ text[Len(text)] = " "
    THEN trim_end(SubSeq(text, 1, Len(text) - 1))
    ELSE text

\* a trim that leaves the text as it is (a faulty trim_matches)
trim_nothing(text, c) == text

\* str::trim_matches(c): every leading and every trailing c is removed
RECURSIVE trim_matches(_, _)
trim_matches(text, c) ==
    IF text # <<>> /\ text[1] = c THEN trim_matches(Tail(text), c)
    ELSE IF text # <<>> /\ text[Len(text)] = c
    THEN trim_matches(SubSeq(text, 1, Len(text) - 1), c)
    ELSE text

\* .trim_matches('"').trim_matches('\'')
remove_quotes(text) == trim_matches(trim_matches(text, DQ), SQ)

NoInfo ==
    [version_id |-> NoString, version_codename |-> NoString, pretty_name |-> NoString,
     vendor_name |-> NoString]

SomeString(text) == [some |-> TRUE, v |-> text]

\* one iteration of `for line in content.lines()`
parse_line(info, line) ==
    LET text == remove_quotes(trim_end(line.value))
    IN  CASE line.key = "VERSION_ID" -> [info EXCEPT !.version_id = SomeString(text)]
          [] line.key = "VERSION_CODENAME" ->
                [info EXCEPT !.version_codename = SomeString(text)]
          [] line.key = "PRETTY_NAME" -> [info EXCEPT !.pretty_name = SomeString(text)]
          [] line.key = "VENDOR_NAME" -> [info EXCEPT !.vendor_name = SomeString(text)]
          [] OTHER -> info

RECURSIVE parse_lines(_, _)
parse_lines(info, lines) ==
    IF lines = <<>> THEN info ELSE parse_lines(parse_line(info, Head(lines)), Tail(lines))

\* Option<String>::unwrap_or_else(String::new)
unwrap_or_empty(o) == IF o.some THEN o.v ELSE <<>>

\* read_os_release_info(input_dir) -> Result<(version, codename, description, author)>
read_os_release_info(file) ==
    LET info == parse_lines(NoInfo, file.lines)
        none == [tag |-> "Err", version |-> <<>>, codename |-> <<>>, description |-> <<>>,
                 author |-> <<>>]
    IN  IF file.state # "file" \/ ~info.version_id.some
        THEN none
        ELSE [tag |-> "Ok", version |-> info.version_id.v,
              codename |-> unwrap_or_empty(info.version_codename),
              description |-> unwrap_or_empty(info.pretty_name),
              author |-> unwrap_or_empty(info.vendor_name)]

\* calculate_avocado_env_vars: the four keys read from os-release
OsReleaseVars(m, info) ==
    LET m1 == Insert(m, <<"AVOCADO_OS_VERSION">>, Str(info.version))
        m2 == Insert(m1, <<"AVOCADO_OS_CODENAME">>, Str(info.codename))
        m3 == Insert(m2, <<"AVOCADO_OS_DESCRIPTION">>, Str(info.description))
    IN  Insert(m3, <<"AVOCADO_OS_AUTHOR">>, Str(info.author))

OsReleaseInit ==
    /\ os_release \in OsReleaseFiles
    /\ oPc = "derive"
    /\ os_env = EmptyEnv
    /\ oFwup = NONE
    /\ oResult = "running"

OsReleaseFrame ==
    UNCHANGED <<overflow_checks, convVars, layVars, manifest, provVars, buildVars, valVars,
                envVars, expVars, devVars, fwVars, fatVars, fatImgVars, runVars>>

\* let env_vars = calculate_avocado_env_vars(..)?
OsDerive ==
    /\ oPc = "derive"
    /\ LET info == read_os_release_info(os_release)
       IN  IF info.tag = "Ok"
           THEN /\ os_env' = OsReleaseVars(os_env, info)
                /\ oPc' = "fwup"
                /\ UNCHANGED oResult
           ELSE /\ oPc' = "returned"
                /\ oResult' = "Err"
                /\ UNCHANGED os_env
    /\ UNCHANGED <<os_release, oFwup>>
    /\ OsReleaseFrame

\* cmd.status(): fwup is not found, or it runs and exits
OsPackager ==
    /\ oPc = "fwup"
    /\ \E o \in {"not_found", "exit_0", "exit_1"} :
        /\ oFwup' = o
        /\ oResult' = IF o = "exit_0" THEN "Ok" ELSE "Err"
    /\ oPc' = "returned"
    /\ UNCHANGED <<os_release, os_env>>
    /\ OsReleaseFrame

OsReleaseNext == OsDerive \/ OsPackager

(***************************************************************************)
(* execute_provision_script (provision.rs): the main thread spawns the     *)
(* script with both output streams piped, starts one reader thread per     *)
(* stream, waits for the child, joins the readers and inspects the exit    *)
(* status.  The child writes its lines and exits; a line is its position   *)
(* in the child's program and whether its bytes are valid UTF-8            *)
(* (BufRead::lines yields Err for a line that is not).                     *)
(***************************************************************************)
MaxLines == 2

Streams == {"stdout", "stderr"}

ScriptLines == [stream : Streams, utf8 : BOOLEAN]

ExitCodes == {0, 1}

NoOutcome == [tag |-> NONE, code |-> 0]

Outcome(tag, code) == [tag |-> tag, code |-> code]

ScriptIdle ==
    /\ provision_exists = FALSE
    /\ sPc = NONE
    /\ cProgram = <<>>
    /\ cExit = 0
    /\ cPos = 0
    /\ child = NONE
    /\ stdout_pipe = <<>>
    /\ stderr_pipe = <<>>
    /\ stdout_read = 0
    /\ stderr_read = 0
    /\ stdout_handle = NONE
    /\ stderr_handle = NONE
    /\ stdout_sink = <<>>
    /\ stderr_sink = <<>>
    /\ sResult = NoOutcome

OsReleaseIdle ==
    /\ os_release = NoFile
    /\ oPc = NONE
    /\ os_env = EmptyEnv
    /\ oFwup = NONE
    /\ oResult = NONE

LastIdle == ScriptIdle /\ OsReleaseIdle

ScriptInit ==
    /\ provision_exists \in BOOLEAN
    /\ sPc = "exists"
    /\ cProgram \in SeqsUpTo(ScriptLines, MaxLines)
    /\ cExit \in ExitCodes
    /\ cPos = 0
    /\ child = NONE
    /\ stdout_pipe = <<>>
    /\ stderr_pipe = <<>>
    /\ stdout_read = 0
    /\ stderr_read = 0
    /\ stdout_handle = NONE
    /\ stderr_handle = NONE
    /\ stdout_sink = <<>>
    /\ stderr_sink = <<>>
    /\ sResult = NoOutcome

\* what the action of the script machine leaves alone outside the machine
ScriptFrame ==
    UNCHANGED <<overflow_checks, convVars, layVars, manifest, provVars, buildVars, valVars,
                envVars, expVars, devVars, fwVars, fatVars, fatImgVars, relVars>>

\* if !provision_path.exists() { return Err(..not found in input directory.) }
RunExists ==
    /\ sPc = "exists"
    /\ IF provision_exists
       THEN sPc' = "spawn" /\ UNCHANGED sResult
       ELSE sPc' = "returned" /\ sResult' = Outcome("NotFound", 0)
    /\ UNCHANGED <<provision_exists, cProgram, cExit, cPos, child, stdout_pipe, stderr_pipe,
                   stdout_read, stderr_read, stdout_handle, stderr_handle, stdout_sink,
                   stderr_sink>>
    /\ ScriptFrame

\* command.spawn().map_err(..)?, then the two std::thread::spawn calls
RunSpawn ==
    /\ sPc = "spawn"
    /\ \E spawned \in BOOLEAN :
        IF spawned
        THEN /\ child' = "running"
             /\ stdout_handle' = "running"
             /\ stderr_handle' = "running"
             /\ sPc' = "wait"
             /\ UNCHANGED sResult
        ELSE /\ sPc' = "returned"
             /\ sResult' = Outcome("SpawnFailed", 0)
             /\ UNCHANGED <<child, stdout_handle, stderr_handle>>
    /\ UNCHANGED <<provision_exists, cProgram, cExit, cPos, stdout_pipe, stderr_pipe,
                   stdout_read, stderr_read, stdout_sink, stderr_sink>>
    /\ ScriptFrame

\* the child writes its next line; a write to a pipe whose reader has been
\* dropped (the reader thread has ended) kills the child with SIGPIPE
ChildWrite ==
    /\ child = "running"
    /\ cPos < Len(cProgram)
    /\ LET line == [n |-> cPos + 1, utf8 |-> cProgram[cPos + 1].utf8]
           handle == IF cProgram[cPos + 1].stream = "stdout" THEN stdout_handle
                     ELSE stderr_handle
       IN  IF handle = "done"
           THEN child' = "killed" /\ UNCHANGED <<cPos, stdout_pipe, stderr_pipe>>
           ELSE /\ cPos' = cPos + 1
                /\ IF cProgram[cPos + 1].stream = "stdout"
                   THEN stdout_pipe' = Append(stdout_pipe, line) /\ UNCHANGED stderr_pipe
                   ELSE stderr_pipe' = Append(stderr_pipe, line) /\ UNCHANGED stdout_pipe
                /\ UNCHANGED child
    /\ UNCHANGED <<provision_exists, sPc, cProgram, cExit, stdout_read, stderr_read,
                   stdout_handle, stderr_handle, stdout_sink, stderr_sink, sResult>>
    /\ ScriptFrame

\* the child exits with its exit code; its ends of the pipes are closed
ChildExit ==
    /\ child = "running"
    /\ cPos = Len(cProgram)
    /\ child' = "exited"
    /\ UNCHANGED <<provision_exists, sPc, cProgram, cExit, cPos, stdout_pipe, stderr_pipe,
                   stdout_read, stderr_read, stdout_handle, stderr_handle, stdout_sink,
                   stderr_sink, sResult>>
    /\ ScriptFrame

\* for line in stdout_reader.lines().map_while(Result::ok) { println!("{line}") }
\* one iteration: the next line is printed, or the loop ends at the first
\* Err or at the end of the stream
ReadStdout ==
    /\ stdout_handle = "running"
    /\ IF stdout_read < Len(stdout_pipe)
       THEN /\ stdout_read' = stdout_read + 1
            /\ IF stdout_pipe[stdout_read + 1].utf8
               THEN /\ stdout_sink' = Append(stdout_sink, stdout_pipe[stdout_read + 1].n)
                    /\ UNCHANGED stdout_handle
               ELSE stdout_handle' = "done" /\ UNCHANGED stdout_sink
       ELSE /\ child \in {"exited", "killed"}
            /\ stdout_handle' = "done"
            /\ UNCHANGED <<stdout_read, stdout_sink>>
    /\ UNCHANGED <<provision_exists, sPc, cProgram, cExit, cPos, child, stdout_pipe,
                   stderr_pipe, stderr_read, stderr_handle, stderr_sink, sResult>>
    /\ ScriptFrame

\* for line in stderr_reader.lines().map_while(Result::ok) { eprintln!("{line}") }
ReadStderr ==
    /\ stderr_handle = "running"
    /\ IF stderr_read < Len(stderr_pipe)
       THEN /\ stderr_read' = stderr_read + 1
            /\ IF stderr_pipe[stderr_read + 1].utf8
               THEN /\ stderr_sink' = Append(stderr_sink, stderr_pipe[stderr_read + 1].n)
                    /\ UNCHANGED stderr_handle
               ELSE stderr_handle' = "done" /\ UNCHANGED stderr_sink
       ELSE /\ child \in {"exited", "killed"}
            /\ stderr_handle' = "done"
            /\ UNCHANGED <<stderr_read, stderr_sink>>
    /\ UNCHANGED <<provision_exists, sPc, cProgram, cExit, cPos, child, stdout_pipe,
                   stderr_pipe, stdout_read, stdout_handle, stdout_sink, sResult>>
    /\ ScriptFrame

\* let status = child.wait().map_err(..)?
RunWait ==
    /\ sPc = "wait"
    /\ child \in {"exited", "killed"}
    /\ \E waited \in BOOLEAN :
        IF waited
        THEN sPc' = "join_stdout" /\ UNCHANGED sResult
        ELSE sPc' = "returned" /\ sResult' = Outcome("WaitFailed", 0)
    /\ UNCHANGED <<provision_exists, cProgram, cExit, cPos, child, stdout_pipe, stderr_pipe,
                   stdout_read, stderr_read, stdout_handle, stderr_handle, stdout_sink,
                   stderr_sink>>
    /\ ScriptFrame

\* let _ = stdout_handle.join()
RunJoinStdout ==
    /\ sPc = "join_stdout"
    /\ stdout_handle = "done"
    /\ sPc' = "join_stderr"
    /\ UNCHANGED <<provision_exists, cProgram, cExit, cPos, child, stdout_pipe, stderr_pipe,
                   stdout_read, stderr_read, stdout_handle, stderr_handle, stdout_sink,
                   stderr_sink, sResult>>
    /\ ScriptFrame

\* let _ = stderr_handle.join()
RunJoinStderr ==
    /\ sPc = "join_stderr"
    /\ stderr_handle = "done"
    /\ sPc' = "status"
    /\ UNCHANGED <<provision_exists, cProgram, cExit, cPos, child, stdout_pipe, stderr_pipe,
                   stdout_read, stderr_read, stdout_handle, stderr_handle, stdout_sink,
                   stderr_sink, sResult>>
    /\ ScriptFrame

\* status.success(): the child exited with code 0
success == child = "exited" /\ cExit = 0

\* status.code().unwrap_or(-1): no code when a signal ended the child
exit_code == IF child = "exited" THEN cExit ELSE -1

\* if !status.success() { return Err(..failed with exit code {}) }; Ok(())
RunStatus ==
    /\ sPc = "status"
    /\ sResult' = IF success THEN Outcome("Ok", 0) ELSE Outcome("ExitCode", exit_code)
    /\ sPc' = "returned"
    /\ UNCHANGED <<provision_exists, cProgram, cExit, cPos, child, stdout_pipe, stderr_pipe,
                   stdout_read, stderr_read, stdout_handle, stderr_handle, stdout_sink,
                   stderr_sink>>
    /\ ScriptFrame

ScriptNext ==
    \/ RunExists \/ RunSpawn \/ ChildWrite \/ ChildExit \/ ReadStdout \/ ReadStderr
    \/ RunWait \/ RunJoinStdout \/ RunJoinStderr \/ RunStatus

(***************************************************************************)
(* The manifest of a provision or build run.  A device carries optional    *)
(* build arguments and its images; the key of an image is its position in  *)
(* `images`.  Image keys are unordered in the manifest (a HashMap), so     *)
(* only the assignments of kinds to keys that are sorted are enumerated.   *)
(***************************************************************************)
DeviceNames == {"sda", "sdb"}

\* Image::String, Image::Object without build_args, with Fat, with Fwup
ImageKinds == <<"string", "object", "fat", "fwup">>

\* StorageDevice.build_args: Option<BuildArgs>
DeviceBuildArgs == {NONE, "fwup", "fat"}

SortedKindSeqs ==
    {q \in SeqsUpTo(1 .. Len(ImageKinds), MaxImages) :
        \A k \in 1 .. Len(q) - 1 : q[k] <= q[k + 1]}

DeviceChoices ==
    {[build_args |-> b, images |-> [k \in 1 .. Len(q) |-> ImageKinds[q[k]]]] :
        b \in DeviceBuildArgs, q \in SortedKindSeqs}

\* a rank of the device choices: swapping the two devices of a manifest yields
\* the same manifest up to the devices' names, so only one of the two is kept
BuildArgsRank(b) == CASE b = NONE -> 0 [] b = "fwup" -> 1 [] b = "fat" -> 2

RECURSIVE ImagesRank(_)
ImagesRank(q) ==
    IF q = <<>>
    THEN 0
    ELSE (CHOOSE k \in 1 .. Len(ImageKinds) : ImageKinds[k] = Head(q))
             + (Len(ImageKinds) + 1) * ImagesRank(Tail(q))

DeviceRank(c) ==
    BuildArgsRank(c.build_args) + 3 * ImagesRank(c.images)

\* runtime.provision is Some(script) or None; storage_devices holds zero, one or two devices
Manifests ==
    {[provision |-> pr, storage_devices |-> sd] :
        pr \in BOOLEAN,
        sd \in [{} -> DeviceChoices] \cup [{"sda"} -> DeviceChoices]
                  \cup {x \in [DeviceNames -> DeviceChoices] :
                            DeviceRank(x["sda"]) <= DeviceRank(x["sdb"])}}

Devices == DOMAIN manifest.storage_devices

ImagesOf(d) == DOMAIN manifest.storage_devices[d].images

ImageKind(d, i) == manifest.storage_devices[d].images[i]

NoManifest == [provision |-> FALSE, storage_devices |-> <<>>]

(***************************************************************************)
(* provision_command (provision.rs), from the device loop on.              *)
(***************************************************************************)
\* what build_image can return for an image of a kind: an image that needs no
\* build returns Ok; a FAT build fails on a bad size or unit or an I/O error,
\* a fwup build when the packager is missing or exits non-zero
build_image(kind) ==
    CASE kind = "string" -> {"Ok"}
      [] kind = "object" -> {"Ok"}
      [] kind = "fat" -> {"Ok", "Err"}
      [] kind = "fwup" -> {"Ok", "Err"}

\* a device build that takes Fat build args like Fwup ones (a faulty
\* build_storage_device)
build_storage_device_any_kind(build_args) == {"Ok", "Err"}

\* what build_storage_device can return: Fat build args are not supported at
\* device level; a Fwup build fails when the environment cannot be derived,
\* the packager is missing or it exits non-zero
build_storage_device(build_args) ==
    CASE build_args = "fwup" -> {"Ok", "Err"}
      [] build_args = "fat" -> {"Err"}

\* how far build_storage_device got when it returned r: the Fat arm returns
\* at once; the Fwup arm calls build_fwup_with_env_vars, which fails while it
\* derives the environment or runs the packager fwup
storage_device_steps(build_args, r) ==
    CASE build_args = "fat" -> {"unsupported"}
      [] build_args = "fwup" /\ r = "Ok" -> {"fwup_exit_0"}
      [] build_args = "fwup" /\ r = "Err" -> {"env_failed", "fwup_not_found", "fwup_exit_1"}
\* how execute_provision_script can end: the script file is missing, it cannot
\* be spawned, or it ran and exited with a status
ScriptOutcomes == {"missing", "spawn_failed", "exit_0", "exit_1"}

\* a script that ignores its exit status (a faulty execute_provision_script)
execute_provision_script_any_status(o) == IF o \in {"exit_0", "exit_1"} THEN "Ok" ELSE "Err"

execute_provision_script(o) == IF o = "exit_0" THEN "Ok" ELSE "Err"

\* an error that is dropped instead of returned (a faulty Propagate)
PropagateDropsError(r, next) == [pc |-> next, result |-> "running"]

\* the `?` operator: on Ok go on at `next`, on Err return the error
Propagate(r, next) ==
    IF r = "Ok"
    THEN [pc |-> next, result |-> "running"]
    ELSE [pc |-> "returned", result |-> "Err"]

\* a device build that does not wait for the image loop (a faulty ImageLoopDone)
ImageLoopLeftEarly == TRUE

\* `for ... in &device.images` has run out of images
ImageLoopDone == pImgTodo = {}

\* `for ... in &manifest.storage_devices` has run out of devices
DeviceLoopDone == pDevTodo = {}

ProvIdle ==
    /\ pPc = NONE
    /\ pCur = NONE
    /\ pDevTodo = {}
    /\ pImgTodo = {}
    /\ pLog = <<>>
    /\ pResult = NONE

ProvInit ==
    /\ manifest \in Manifests
    /\ pPc = "devices"
    /\ pCur = NONE
    /\ pDevTodo = DOMAIN manifest.storage_devices
    /\ pImgTodo = {}
    /\ pLog = <<>>
    /\ pResult = "running"

\* the device loop takes the next device (in the map's arbitrary order)
ProvNextDevice ==
    /\ pPc = "devices"
    /\ ~DeviceLoopDone
    /\ \E d \in pDevTodo :
          /\ pCur' = d
          /\ pDevTodo' = pDevTodo \ {d}
          /\ pImgTodo' = ImagesOf(d)
    /\ pPc' = "images"
    /\ UNCHANGED <<pLog, pResult, manifest, overflow_checks, convVars, layVars, buildVars, valVars, moreVars>>

\* the image loop builds the next image (in the map's arbitrary order)
ProvBuildImage ==
    /\ pPc = "images"
    /\ ~ImageLoopDone
    /\ \E i \in pImgTodo : \E r \in build_image(ImageKind(pCur, i)) :
          /\ pLog' = Append(pLog, [step |-> "image", dev |-> pCur, img |-> i, r |-> r, out |-> r])
          /\ pImgTodo' = pImgTodo \ {i}
          /\ pPc' = Propagate(r, "images").pc
          /\ pResult' = Propagate(r, "images").result
    /\ UNCHANGED <<pCur, pDevTodo, manifest, overflow_checks, convVars, layVars, buildVars, valVars, moreVars>>

\* after the image loop: the device's own build, when it has build args
ProvBuildStorageDevice ==
    /\ pPc = "images"
    /\ ImageLoopDone
    /\ IF manifest.storage_devices[pCur].build_args = NONE
       THEN /\ pPc' = "devices"
            /\ UNCHANGED <<pLog, pResult>>
       ELSE \E r \in build_storage_device(manifest.storage_devices[pCur].build_args) :
            \E o \in storage_device_steps(manifest.storage_devices[pCur].build_args, r) :
               /\ pLog' = Append(pLog, [step |-> "device", dev |-> pCur, img |-> 0, r |-> r, out |-> o])
               /\ pPc' = Propagate(r, "devices").pc
               /\ pResult' = Propagate(r, "devices").result
    /\ UNCHANGED <<pCur, pDevTodo, pImgTodo, manifest, overflow_checks, convVars, layVars, buildVars, valVars, moreVars>>

\* after the device loop: the provisioning script, when runtime.provision names one
ProvScript ==
    /\ pPc = "devices"
    /\ DeviceLoopDone
    /\ IF ~manifest.provision
       THEN /\ pPc' = "returned"
            /\ pResult' = "Ok"
            /\ UNCHANGED pLog
       ELSE \E o \in ScriptOutcomes :
               LET r == execute_provision_script(o)
               IN  /\ pLog' = Append(pLog, [step |-> "script", dev |-> NONE, img |-> 0, r |-> r, out |-> o])
                   /\ pPc' = "returned"
                   /\ pResult' = IF Propagate(r, "returned").result = "Err" THEN "Err" ELSE "Ok"
    /\ UNCHANGED <<pCur, pDevTodo, pImgTodo, manifest, overflow_checks, convVars, layVars, buildVars, valVars, moreVars>>

ProvNext == ProvNextDevice \/ ProvBuildImage \/ ProvBuildStorageDevice \/ ProvScript

(***************************************************************************)
(* build_command (build.rs), from the device loop on.  The command reads   *)
(* a device's build_args only to log them and never reads                  *)
(* runtime.provision, so its manifests leave both unset.                   *)
(***************************************************************************)
BuildManifests ==
    {m \in Manifests :
        /\ ~m.provision
        /\ \A d \in DOMAIN m.storage_devices : m.storage_devices[d].build_args = NONE}

\* what process_image can return for an image of a kind: copy_file fails when
\* the input is missing or the copy fails, build_fat when the image cannot be
\* created, build_fwup when the template or the packager is missing or it
\* exits non-zero
process_image(kind) ==
    CASE kind = "string" -> {"Ok", "Err"}
      [] kind = "object" -> {"Ok", "Err"}
      [] kind = "fat" -> {"Ok", "Err"}
      [] kind = "fwup" -> {"Ok", "Err"}

\* `if let Err(e) = process_image(..) { errors.push(..) }`
PushError(errs, r, image_name, device_name) ==
    IF r = "Err"
    THEN Append(errs, [image |-> image_name, device |-> device_name])
    ELSE errs

\* a report of the first error only (a faulty BuildReturn)
BuildReturnFirstError(errs) ==
    IF errs # <<>>
    THEN [tag |-> "Err", entries |-> <<errs[1]>>]
    ELSE [tag |-> "Ok", entries |-> <<>>]

\* `if !errors.is_empty() { .. return Err(error_msg) } .. Ok(())`: the message
\* has one line per collected error
BuildReturn(errs) ==
    IF errs # <<>>
    THEN [tag |-> "Err", entries |-> errs]
    ELSE [tag |-> "Ok", entries |-> <<>>]

BuildIdle ==
    /\ bPc = NONE
    /\ bCur = NONE
    /\ bDevTodo = {}
    /\ bImgTodo = {}
    /\ bAttempted = {}
    /\ bFailed = {}
    /\ errors = <<>>
    /\ bResult = NONE

BuildInit ==
    /\ manifest \in BuildManifests
    /\ bPc = "loop"
    /\ bCur = NONE
    /\ bDevTodo = DOMAIN manifest.storage_devices
    /\ bImgTodo = {}
    /\ bAttempted = {}
    /\ bFailed = {}
    /\ errors = <<>>                          \* let mut errors = Vec::new()
    /\ bResult = NONE

\* the device loop takes the next device (in the map's arbitrary order)
BuildNextDevice ==
    /\ bPc = "loop"
    /\ bImgTodo = {}
    /\ bDevTodo # {}
    /\ \E d \in bDevTodo :
          /\ bCur' = d
          /\ bDevTodo' = bDevTodo \ {d}
          /\ bImgTodo' = ImagesOf(d)
    /\ UNCHANGED <<bPc, bAttempted, bFailed, errors, bResult, manifest, overflow_checks,
                   convVars, layVars, provVars, valVars, moreVars>>

\* the image loop processes the next image (in the map's arbitrary order)
BuildProcessImage ==
    /\ bPc = "loop"
    /\ bImgTodo # {}
    /\ \E i \in bImgTodo : \E r \in process_image(ImageKind(bCur, i)) :
          /\ bImgTodo' = bImgTodo \ {i}
          /\ bAttempted' = bAttempted \cup {<<bCur, i>>}
          /\ bFailed' = IF r = "Err" THEN bFailed \cup {<<bCur, i>>} ELSE bFailed
          /\ errors' = PushError(errors, r, i, bCur)
    /\ UNCHANGED <<bPc, bCur, bDevTodo, bResult, manifest, overflow_checks,
                   convVars, layVars, provVars, valVars, moreVars>>

\* after the device loop: report the errors
BuildReport ==
    /\ bPc = "loop"
    /\ bImgTodo = {}
    /\ bDevTodo = {}
    /\ bPc' = "returned"
    /\ bResult' = BuildReturn(errors)
    /\ UNCHANGED <<bCur, bDevTodo, bImgTodo, bAttempted, bFailed, errors, manifest,
                   overflow_checks, convVars, layVars, provVars, valVars, moreVars>>

BuildNext == BuildNextDevice \/ BuildProcessImage \/ BuildReport

(***************************************************************************)
(* The manifest of a validate run, with the file names it references.      *)
(***************************************************************************)
FileNames == {"provision.sh", "fwup.conf", "boot.img"}

\* the images a device may hold, by key: a bare file name, an object without
\* build_args, an object with Fwup build args, an object with Fat build args
\* whose files name the same input twice
\* (size is the declared size of an Image::Object, 0 for a bare file name)
ValImages ==
    [boot |-> [kind |-> "string", filename |-> "boot.img", template |-> NONE, files |-> <<>>,
               size |-> 0],
     raw  |-> [kind |-> "object", filename |-> NONE, template |-> NONE, files |-> <<>>,
               size |-> 16],
     fw   |-> [kind |-> "fwup", filename |-> NONE, template |-> "fwup.conf", files |-> <<>>,
               size |-> 16],
     data |-> [kind |-> "fat", filename |-> NONE, template |-> NONE,
               files |-> <<"boot.img", "fwup.conf", "boot.img">>, size |-> 16]]

\* images for the size checks: `empty` has Fat build args, no files, size 0
ValSizedImages ==
    [boot  |-> ValImages.boot,
     fw    |-> ValImages.fw,
     data  |-> [kind |-> "fat", filename |-> NONE, template |-> NONE,
                files |-> <<"boot.img">>, size |-> 16],
     empty |-> [kind |-> "fat", filename |-> NONE, template |-> NONE, files |-> <<>>,
                size |-> 0]]

Restrict(f, S) == [x \in S |-> f[x]]

\* StorageDevice.build_args: None or Fwup { template }
NoBuildArgs == [kind |-> NONE, template |-> NONE]

ValDeviceBuildArgs == {NoBuildArgs, [kind |-> "fwup", template |-> "fwup.conf"]}

ValDeviceChoices ==
    {[build_args |-> b, images |-> Restrict(ValImages, S)] :
        b \in ValDeviceBuildArgs, S \in SUBSET DOMAIN ValImages}

Profiles == [dev |-> [script |-> "provision.sh"]]

\* manifest.provision: None, or a section with no profile or with one
ProvisionSections ==
    {[some |-> FALSE, profiles |-> Restrict(Profiles, {})]}
        \cup {[some |-> TRUE, profiles |-> Restrict(Profiles, S)] : S \in SUBSET DOMAIN Profiles}

ValManifests ==
    {[runtime |-> [provision |-> rp, provision_default |-> pd],
      provision |-> ps,
      storage_devices |-> sd] :
        rp \in {NONE, "provision.sh"},
        pd \in {NONE, "dev"},
        ps \in ProvisionSections,
        sd \in UNION {[D -> ValDeviceChoices] : D \in {{}, {"sda"}, DeviceNames}}}

\* manifests of one device whose images come from ValSizedImages
ValSizedManifests ==
    {[runtime |-> [provision |-> rp, provision_default |-> pd],
      provision |-> ps,
      storage_devices |-> [d \in {"sda"} |-> [build_args |-> b,
                                              images |-> Restrict(ValSizedImages, S)]]] :
        rp \in {NONE, "provision.sh"},
        pd \in {NONE, "dev"},
        ps \in ProvisionSections,
        b \in ValDeviceBuildArgs,
        S \in SUBSET DOMAIN ValSizedImages}

NoValManifest ==
    [runtime |-> [provision |-> NONE, provision_default |-> NONE],
     provision |-> [some |-> FALSE, profiles |-> <<>>],
     storage_devices |-> <<>>]

(***************************************************************************)
(* validate_command (validate.rs), from the first check on.                *)
(***************************************************************************)
\* Some(path) iff the file exists in one of the input directories
find_file_in_dirs(filename) == filename \in vExists

\* Image::build: the build type of the image's build_args, if any
build(image) == IF image.kind \in {"fat", "fwup"} THEN image.kind ELSE NONE

\* Image::build_args
image_build_args(image) ==
    IF image.kind \in {"fat", "fwup"}
    THEN [kind |-> image.kind, template |-> image.template]
    ELSE NoBuildArgs

\* BuildArgs::fwup_template
fwup_template(build_args) ==
    IF build_args.kind = "fwup" THEN build_args.template ELSE NONE

\* the files validate_command iterates for an image: those of Fat build args
files(image) == IF image.kind = "fat" THEN image.files ELSE <<>>

\* Manifest::get_provision_profile
get_provision_profile(profile_name) ==
    IF vManifest.provision.some /\ profile_name \in DOMAIN vManifest.provision.profiles
    THEN Some(vManifest.provision.profiles[profile_name])
    ELSE Absent

\* a Vec after the pushes of `entries`, in their order
RECURSIVE PushAll(_, _)
PushAll(vec, entries) ==
    IF entries = <<>>
    THEN vec
    ELSE PushAll(vec (+) SetToBag({Head(entries)}), Tail(entries))

Missing(filename) == ~find_file_in_dirs(filename)

\* what one iteration of the image loop pushes to missing_files
ImagePushes(device_name, image_name, image) ==
    LET Entry(filename) == <<device_name, image_name, filename>>
        string == IF image.kind = "string" /\ Missing(image.filename)
                  THEN <<Entry(image.filename)>>
                  ELSE <<>>
        template == IF build(image) = "fwup" /\ fwup_template(image_build_args(image)) # NONE
                         /\ Missing(fwup_template(image_build_args(image)))
                    THEN <<Entry(fwup_template(image_build_args(image)))>>
                    ELSE <<>>
        inputs == SelectSeq(files(image), Missing)
    IN  string \o template \o [k \in 1 .. Len(inputs) |-> Entry(inputs[k])]

\* what the image loop of a device pushes to missing_files, the images taken
\* in one of the orders the map may yield
RECURSIVE DevicePushes(_, _)
DevicePushes(device_name, todo) ==
    IF todo = {}
    THEN <<>>
    ELSE LET i == CHOOSE x \in todo : TRUE
         IN  ImagePushes(device_name, i, vManifest.storage_devices[device_name].images[i])
                 \o DevicePushes(device_name, todo \ {i})

\* a check of the default profile that ignores a missing provision section
\* (a faulty default_profile_reference)
default_profile_reference_in_section_only(default_profile_name) ==
    IF vManifest.provision.some
          /\ default_profile_name # NONE
          /\ ~get_provision_profile(default_profile_name).some
    THEN <<[type |-> "Default profile reference", filename |-> "profile not found"]>>
    ELSE <<>>

\* what the check of runtime.provision_default pushes to missing_provision_files
default_profile_reference(default_profile_name) ==
    IF vManifest.provision.some
    THEN IF default_profile_name # NONE /\ ~get_provision_profile(default_profile_name).some
         THEN <<[type |-> "Default profile reference", filename |-> "profile not found"]>>
         ELSE <<>>
    ELSE IF default_profile_name # NONE
         THEN <<[type |-> "Default profile reference", filename |-> "no provision section"]>>
         ELSE <<>>

\* what the profile loop pushes to missing_provision_files
RECURSIVE ProfilePushes(_)
ProfilePushes(todo) ==
    IF todo = {}
    THEN <<>>
    ELSE LET p == CHOOSE x \in todo : TRUE
             script == vManifest.provision.profiles[p].script
         IN  (IF Missing(script) THEN <<[type |-> p, filename |-> script]>> ELSE <<>>)
                 \o ProfilePushes(todo \ {p})

ValIdle ==
    /\ vManifest = NoValManifest
    /\ vExists = {}
    /\ vPc = NONE
    /\ vDevTodo = {}
    /\ missing_files = EmptyBag
    /\ missing_device_files = EmptyBag
    /\ missing_provision_files = EmptyBag
    /\ vResult = NONE

ValInit ==
    /\ vManifest \in ValManifests
    /\ vExists \in SUBSET FileNames
    /\ vPc = "runtime"
    /\ vDevTodo = DOMAIN vManifest.storage_devices
    /\ missing_files = EmptyBag               \* let mut missing_files = Vec::new()
    /\ missing_device_files = EmptyBag
    /\ missing_provision_files = EmptyBag
    /\ vResult = NONE

ValSizedInit ==
    /\ vManifest \in ValSizedManifests
    /\ vExists \in SUBSET FileNames
    /\ vPc = "runtime"
    /\ vDevTodo = DOMAIN vManifest.storage_devices
    /\ missing_files = EmptyBag
    /\ missing_device_files = EmptyBag
    /\ missing_provision_files = EmptyBag
    /\ vResult = NONE

\* `if let Some(provision_file) = &manifest.runtime.provision && .. is_none()`
ValCheckRuntime ==
    /\ vPc = "runtime"
    /\ LET provision_file == vManifest.runtime.provision
       IN  missing_files' =
               IF provision_file # NONE /\ Missing(provision_file)
               THEN PushAll(missing_files, <<<<"runtime", "provision", provision_file>>>>)
               ELSE missing_files
    /\ vPc' = "provision"
    /\ UNCHANGED <<vManifest, vExists, vDevTodo, missing_device_files, missing_provision_files,
                   vResult, overflow_checks, convVars, layVars, manifest, provVars, buildVars, moreVars>>

\* the provision profiles, their scripts and the default profile reference
ValCheckProvision ==
    /\ vPc = "provision"
    /\ missing_provision_files' =
           PushAll(missing_provision_files,
                   (IF vManifest.provision.some
                    THEN ProfilePushes(DOMAIN vManifest.provision.profiles)
                    ELSE <<>>)
                   \o default_profile_reference(vManifest.runtime.provision_default))
    /\ vPc' = "devices"
    /\ UNCHANGED <<vManifest, vExists, vDevTodo, missing_files, missing_device_files,
                   vResult, overflow_checks, convVars, layVars, manifest, provVars, buildVars, moreVars>>

\* one iteration of the device loop: the device's fwup template, then its images
ValCheckDevice ==
    /\ vPc = "devices"
    /\ \E device_name \in vDevTodo :
          LET device == vManifest.storage_devices[device_name]
              template == fwup_template(device.build_args)
          IN  /\ missing_device_files' =
                     IF template # NONE /\ Missing(template)
                     THEN PushAll(missing_device_files, <<<<device_name, template>>>>)
                     ELSE missing_device_files
              /\ missing_files' =
                     PushAll(missing_files, DevicePushes(device_name, DOMAIN device.images))
              /\ vDevTodo' = vDevTodo \ {device_name}
    /\ UNCHANGED <<vManifest, vExists, vPc, missing_provision_files,
                   vResult, overflow_checks, convVars, layVars, manifest, provVars, buildVars, moreVars>>

\* missing_files.len() + missing_device_files.len() + missing_provision_files.len()
total_missing ==
    BagCardinality(missing_files) + BagCardinality(missing_device_files)
        + BagCardinality(missing_provision_files)

\* after the device loop: one error that lists the three vectors, or Ok
ValReport ==
    /\ vPc = "devices"
    /\ vDevTodo = {}
    /\ vPc' = "returned"
    /\ vResult' =
           IF missing_files # EmptyBag \/ missing_device_files # EmptyBag
                 \/ missing_provision_files # EmptyBag
           THEN [tag |-> "Err", total |-> total_missing,
                 provision |-> missing_provision_files,
                 device |-> missing_device_files,
                 files |-> missing_files]
           ELSE [tag |-> "Ok", total |-> 0, provision |-> EmptyBag, device |-> EmptyBag,
                 files |-> EmptyBag]
    /\ UNCHANGED <<vManifest, vExists, vDevTodo, missing_files, missing_device_files,
                   missing_provision_files, overflow_checks, convVars, layVars, manifest,
                   provVars, buildVars, moreVars>>

ValNext == ValCheckRuntime \/ ValCheckProvision \/ ValCheckDevice \/ ValReport

(***************************************************************************)
(* Provision::resolve_envs (manifest.rs).  A mapping is a function from    *)
(* the keys it holds to their values; an entry of the profile's list is a  *)
(* named reference or an inline mapping.                                   *)
(***************************************************************************)
MaxEnvRefs == 2

EnvKeys == {"K1", "K2"}

EnvValues == {"a", "b"}

EnvMaps == UNION {[D -> EnvValues] : D \in SUBSET EnvKeys}

EmptyMap == [k \in {} |-> "a"]

\* provision.envs: None, or the shared blocks by name (no block, or "base")
NamedEnvs ==
    {[some |-> FALSE, blocks |-> [n \in {} |-> EmptyMap]]}
        \cup {[some |-> TRUE, blocks |-> [n \in {} |-> EmptyMap]]}
        \cup {[some |-> TRUE, blocks |-> [n \in {"base"} |-> m]] : m \in EnvMaps}

\* ProvisionEnv::Named(env_name) and ProvisionEnv::Inline(inline_envs)
Named(env_name) == [kind |-> "named", name |-> env_name, pairs |-> EmptyMap]

Inline(inline_envs) == [kind |-> "inline", name |-> "", pairs |-> inline_envs]

ProvisionEnvs == {Named("base"), Named("missing")} \cup {Inline(m) : m \in EnvMaps}

\* a first-wins insertion (a faulty InsertAll)
InsertAllKeepsOld(map, pairs) ==
    [k \in DOMAIN map \cup DOMAIN pairs |-> IF k \in DOMAIN map THEN map[k] ELSE pairs[k]]

\* `for (key, value) in block { resolved_envs.insert(key.clone(), value.clone()) }`
InsertAll(map, pairs) ==
    [k \in DOMAIN map \cup DOMAIN pairs |-> IF k \in DOMAIN pairs THEN pairs[k] ELSE map[k]]

NoResolveResult == [tag |-> NONE, message |-> <<>>, map |-> <<>>]

ResolveIdle ==
    /\ named_envs = [some |-> FALSE, blocks |-> <<>>]
    /\ rEnvs = [some |-> FALSE, list |-> <<>>]
    /\ rProfile = NONE
    /\ rIdx = 0
    /\ resolved_envs = <<>>
    /\ rResult = NoResolveResult

ResolveInit ==
    /\ named_envs \in NamedEnvs
    /\ rEnvs \in {[some |-> FALSE, list |-> <<>>]}
                   \cup {[some |-> TRUE, list |-> l] : l \in SeqsUpTo(ProvisionEnvs, MaxEnvRefs)}
    /\ rProfile = "dev"
    /\ rIdx = 0
    /\ resolved_envs = EmptyMap               \* let mut resolved_envs = HashMap::new()
    /\ rResult = NoResolveResult

\* the entry the loop is at
env == rEnvs.list[rIdx + 1]

Resolving == rResult.tag = NONE /\ rEnvs.some /\ rIdx < Len(rEnvs.list)

\* the arm ProvisionEnv::Named: insert the block's pairs, or fail
ResolveNamed ==
    /\ Resolving
    /\ env.kind = "named"
    /\ IF named_envs.some
       THEN IF env.name \in DOMAIN named_envs.blocks
            THEN /\ resolved_envs' = InsertAll(resolved_envs, named_envs.blocks[env.name])
                 /\ rIdx' = rIdx + 1
                 /\ UNCHANGED rResult
            ELSE /\ rResult' = [tag |-> "Err",
                                message |-> <<"[ERROR] Named environment block '", env.name,
                                              "' not found in provision.envs.">>,
                                map |-> <<>>]
                 /\ UNCHANGED <<resolved_envs, rIdx>>
       ELSE /\ rResult' = [tag |-> "Err",
                           message |-> <<"[ERROR] Named environment block '", env.name,
                                         "' referenced but no provision.envs defined.">>,
                           map |-> <<>>]
            /\ UNCHANGED <<resolved_envs, rIdx>>
    /\ UNCHANGED <<named_envs, rEnvs, rProfile, expVars, overflow_checks, convVars, layVars,
                   manifest, provVars, buildVars, valVars, devVars, fwVars, laterVars>>

\* the arm ProvisionEnv::Inline: insert the inline pairs
ResolveInline ==
    /\ Resolving
    /\ env.kind = "inline"
    /\ resolved_envs' = InsertAll(resolved_envs, env.pairs)
    /\ rIdx' = rIdx + 1
    /\ UNCHANGED <<named_envs, rEnvs, rProfile, rResult, expVars, overflow_checks, convVars,
                   layVars, manifest, provVars, buildVars, valVars, devVars, fwVars, laterVars>>

\* Ok(resolved_envs)
ResolveReturn ==
    /\ rResult = NoResolveResult
    /\ ~rEnvs.some \/ rIdx = Len(rEnvs.list)
    /\ rResult' = [tag |-> "Ok", message |-> <<>>, map |-> resolved_envs]
    /\ UNCHANGED <<named_envs, rEnvs, rProfile, rIdx, resolved_envs, expVars, overflow_checks,
                   convVars, layVars, manifest, provVars, buildVars, valVars, devVars, fwVars, laterVars>>

ResolveNext == ResolveNamed \/ ResolveInline \/ ResolveReturn

(***************************************************************************)
(* Provision::expand_env_vars and expand_single_env_var (manifest.rs).     *)
(* A string is the sequence of its characters.                             *)
(***************************************************************************)
MaxSubst == 3

\* the token ${n}
Tok(n) == <<"$", "{", n, "}">>

\* the values of the mapping: plain text, one token, a token inside text, two
\* tokens, an unterminated token, a token before an unterminated one, an
\* empty name, a dollar sign before a token
ExpandValues ==
    {<<"x">>, Tok("A"), <<"x">> \o Tok("A") \o <<"y">>, Tok("A") \o Tok("B"),
     Tok("B") \o Tok("A"), <<"$", "{", "A">>, Tok("A") \o <<"$", "{", "B">>,
     <<"$", "{", "}">>, <<"$">> \o Tok("A")}

EnvNames == {<<"A">>, <<"B">>}

\* the value of a process environment variable: unset, plain text, or a text
\* that holds a token itself
EnvironValues ==
    {[some |-> FALSE, v |-> <<>>], [some |-> TRUE, v |-> <<"v">>],
     [some |-> TRUE, v |-> Tok("A")], [some |-> TRUE, v |-> Tok("B")]}

\* the process environments: a variable may hold another variable's token
Environs == {e \in [EnvNames -> EnvironValues] : \A n \in EnvNames : e[n].v # Tok(n[1])}

\* std::env::var(var_name): Ok(value) iff the variable is set
env_var(var_name) ==
    IF var_name \in DOMAIN environ THEN environ[var_name] ELSE [some |-> FALSE, v |-> <<>>]

\* str::find("${"): the position of the first "${", 0 if there is none
FindOpen(s) ==
    LET hits == {i \in 1 .. Len(s) - 1 : s[i] = "$" /\ s[i + 1] = "{"}
    IN  IF hits = {} THEN 0 ELSE CHOOSE i \in hits : \A j \in hits : i <= j

\* result[start..].find('}'): the position of the first "}" from start on, 0 if none
FindClose(s, start) ==
    LET hits == {i \in start .. Len(s) : s[i] = "}"}
    IN  IF hits = {} THEN 0 ELSE CHOOSE i \in hits : \A j \in hits : i <= j

\* &result[start + 2..start + end]
VarName(s, start, end) == SubSeq(s, start + 2, end - 1)

\* result.replace_range(start..start + end + 1, &replacement)
ReplaceRange(s, start, end, replacement) ==
    SubSeq(s, 1, start - 1) \o replacement \o SubSeq(s, end + 1, Len(s))

\* the first token of `result` is terminated and names a variable that is set
CanSubstitute(s) ==
    /\ FindOpen(s) # 0
    /\ FindClose(s, FindOpen(s)) # 0
    /\ env_var(VarName(s, FindOpen(s), FindClose(s, FindOpen(s)))).some

\* the `while let` loop makes another substitution
WhileGoesOn(s) == CanSubstitute(s)

ExpandIdle ==
    /\ environ = <<>>
    /\ eEnvs = <<>>
    /\ eTodo = {}
    /\ eKey = NONE
    /\ result = <<>>
    /\ eSubst = 0
    /\ expanded = <<>>
    /\ ePc = NONE

ExpandInit ==
    /\ environ \in Environs
    /\ eEnvs \in UNION {[D -> ExpandValues] : D \in {{}, {"K1"}, EnvKeys}}
    /\ eTodo = DOMAIN eEnvs
    /\ eKey = NONE
    /\ result = <<>>
    /\ eSubst = 0
    /\ expanded = <<>>                         \* let mut expanded = HashMap::new()
    /\ ePc = "for"

\* the loop over the mapping takes the next pair (in the map's arbitrary order)
ExpandNextKey ==
    /\ ePc = "for"
    /\ \E key \in eTodo :
          /\ eKey' = key
          /\ eTodo' = eTodo \ {key}
          /\ result' = eEnvs[key]              \* let mut result = value.to_string()
    /\ eSubst' = 0
    /\ ePc' = "while"
    /\ UNCHANGED <<environ, eEnvs, expanded, envVars, overflow_checks, convVars, layVars,
                   manifest, provVars, buildVars, valVars, devVars, fwVars, laterVars>>

\* one iteration of the while loop: the first token is replaced by its variable
ExpandSubstitute ==
    /\ ePc = "while"
    /\ WhileGoesOn(result)
    /\ LET start == FindOpen(result)
           end == FindClose(result, start)
           replacement == env_var(VarName(result, start, end)).v
       IN  result' = ReplaceRange(result, start, end, replacement)
    /\ eSubst' = IF eSubst < MaxSubst THEN eSubst + 1 ELSE eSubst
    /\ UNCHANGED <<environ, eEnvs, eTodo, eKey, expanded, ePc, envVars, overflow_checks,
                   convVars, layVars, manifest, provVars, buildVars, valVars, devVars, fwVars, laterVars>>

\* the while loop ends (no token, an unterminated one, or a variable that is
\* not set): expanded.insert(key.clone(), expanded_value)
ExpandBreak ==
    /\ ePc = "while"
    /\ ~WhileGoesOn(result)
    /\ expanded' = InsertAll(expanded, [k \in {eKey} |-> result])
    /\ ePc' = "for"
    /\ UNCHANGED <<environ, eEnvs, eTodo, eKey, result, eSubst, envVars, overflow_checks,
                   convVars, layVars, manifest, provVars, buildVars, valVars, devVars, fwVars, laterVars>>

\* the loop over the mapping is over: `expanded` is returned
ExpandReturn ==
    /\ ePc = "for"
    /\ eTodo = {}
    /\ ePc' = "returned"
    /\ UNCHANGED <<environ, eEnvs, eTodo, eKey, result, eSubst, expanded, envVars,
                   overflow_checks, convVars, layVars, manifest, provVars, buildVars, valVars, devVars, fwVars, laterVars>>

ExpandNext == ExpandNextKey \/ ExpandSubstitute \/ ExpandBreak \/ ExpandReturn

LaterIdle == FatIdle /\ FatImgIdle /\ LastIdle

MoreIdle == ResolveIdle /\ ExpandIdle /\ DevIdle /\ FwIdle /\ LaterIdle

(***************************************************************************)
(* Specifications: one per command or computation; the state of the       *)
(* others stays idle.                                                      *)
(***************************************************************************)
InitConv == ConvInit /\ LayIdle /\ manifest = NoManifest /\ ProvIdle /\ BuildIdle /\ ValIdle /\ MoreIdle

SpecConv == InitConv /\ [][ConvNext]_vars

InitLayout == LayInit /\ ConvIdle /\ manifest = NoManifest /\ ProvIdle /\ BuildIdle /\ ValIdle /\ MoreIdle

SpecLayout == InitLayout /\ [][LayNext]_vars

InitProvision ==
    ProvInit /\ overflow_checks = FALSE /\ ConvIdle /\ LayIdle /\ BuildIdle /\ ValIdle /\ MoreIdle

SpecProvision == InitProvision /\ [][ProvNext]_vars

InitBuild ==
    BuildInit /\ overflow_checks = FALSE /\ ConvIdle /\ LayIdle /\ ProvIdle /\ ValIdle /\ MoreIdle

SpecBuild == InitBuild /\ [][BuildNext]_vars

InitValidate ==
    ValInit /\ overflow_checks = FALSE /\ ConvIdle /\ LayIdle /\ manifest = NoManifest
        /\ ProvIdle /\ BuildIdle /\ MoreIdle

SpecValidate == InitValidate /\ [][ValNext]_vars

InitValidateSized ==
    ValSizedInit /\ overflow_checks = FALSE /\ ConvIdle /\ LayIdle /\ manifest = NoManifest
        /\ ProvIdle /\ BuildIdle /\ MoreIdle

SpecValidateSized == InitValidateSized /\ [][ValNext]_vars

BaseIdle ==
    /\ overflow_checks = FALSE
    /\ ConvIdle
    /\ LayIdle
    /\ manifest = NoManifest
    /\ ProvIdle
    /\ BuildIdle
    /\ ValIdle

InitResolve == ResolveInit /\ BaseIdle /\ ExpandIdle /\ DevIdle /\ FwIdle /\ LaterIdle

SpecResolve == InitResolve /\ [][ResolveNext]_vars

InitExpand == ExpandInit /\ BaseIdle /\ ResolveIdle /\ DevIdle /\ FwIdle /\ LaterIdle

SpecExpand == InitExpand /\ [][ExpandNext]_vars

\* the expansion is a sequential program: it takes a step whenever it can
SpecExpandFair == InitExpand /\ [][ExpandNext]_vars /\ WF_vars(ExpandNext)

InitDeviceEnv ==
    DevEnvInit /\ ConvIdle /\ manifest = NoManifest /\ ProvIdle /\ BuildIdle /\ ValIdle
        /\ ResolveIdle /\ ExpandIdle /\ FwIdle /\ LaterIdle

SpecDeviceEnv == InitDeviceEnv /\ [][DevEnvNext]_vars

InitFwup ==
    FwupInit /\ ConvIdle /\ manifest = NoManifest /\ ProvIdle /\ BuildIdle /\ ValIdle
        /\ ResolveIdle /\ ExpandIdle /\ LaterIdle

SpecFwup == InitFwup /\ [][FwupNext]_vars

InitFat ==
    FatInit /\ BaseIdle /\ ResolveIdle /\ ExpandIdle /\ DevIdle /\ FwIdle /\ FatImgIdle
        /\ LastIdle

InitFatImg ==
    FatImgInit /\ ConvIdle /\ LayIdle /\ manifest = NoManifest /\ ProvIdle /\ BuildIdle
        /\ ValIdle /\ ResolveIdle /\ ExpandIdle /\ DevIdle /\ FwIdle /\ LastIdle

InitScript ==
    ScriptInit /\ BaseIdle /\ ResolveIdle /\ ExpandIdle /\ DevIdle /\ FwIdle /\ FatIdle
        /\ FatImgIdle /\ OsReleaseIdle

InitOsRelease ==
    OsReleaseInit /\ BaseIdle /\ ResolveIdle /\ ExpandIdle /\ DevIdle /\ FwIdle /\ FatIdle
        /\ FatImgIdle /\ ScriptIdle

SpecOsRelease == InitOsRelease /\ [][OsReleaseNext]_vars

SpecScript == InitScript /\ [][ScriptNext]_vars

SpecFatImg == InitFatImg /\ [][FatImgNext]_vars

SpecFat == InitFat /\ [][FatNext]_vars

(***************************************************************************)
(* Exact (unbounded) sums of u64 values, for stating what a sum should be: *)
(* a wide number has a fifth limb that holds what does not fit in 64 bits. *)
(***************************************************************************)
Wide(x) == <<x[1], x[2], x[3], x[4], 0>>

WideAdd(a, b) ==
    LET s1 == a[1] + b[1]
        s2 == a[2] + b[2] + (s1 \div LimbBase)
        s3 == a[3] + b[3] + (s2 \div LimbBase)
        s4 == a[4] + b[4] + (s3 \div LimbBase)
        s5 == a[5] + b[5] + (s4 \div LimbBase)
    IN  <<s1 % LimbBase, s2 % LimbBase, s3 % LimbBase, s4 % LimbBase, s5>>

RECURSIVE WideSum(_)
WideSum(xs) ==
    IF xs = <<>>
    THEN Wide(U64Zero)
    ELSE WideAdd(WideSum(SubSeq(xs, 1, Len(xs) - 1)), Wide(xs[Len(xs)]))

\* the byte count of magnitude m in unit u, as the schema defines the units:
\* binary units are powers of 1024, decimal units powers of 1000
UnitBase(u) == IF u \in {"kilobytes", "megabytes", "gigabytes", "terabytes"} THEN 1000 ELSE 1024

UnitPower(u) ==
    CASE u = "bytes" -> 0
      [] u \in {"kilobytes", "kibibytes"} -> 1
      [] u \in {"megabytes", "mebibytes"} -> 2
      [] u \in {"gigabytes", "gibibytes"} -> 3
      [] u \in {"terabytes", "tebibytes"} -> 4

to_bytes(m, u) == U64MulPow(U64FromNat(m), UnitBase(u), UnitPower(u)).val

(***************************************************************************)
(* Claims on the partition layout (SpecLayout) and the conversions         *)
(* (SpecConv).                                                             *)
(***************************************************************************)
NoExplicitOffsets == \A k \in 1 .. Len(lParts) : ~lParts[k].offset.some

\* C6: for a device whose partitions declare no explicit offset, the computed
\* offset of every partition equals the sum of the computed sizes of all the
\* partitions before it; the first partition has offset 0.
C6_OffsetIsSumOfSizes ==
    NoExplicitOffsets =>
        \A i \in 1 .. Len(lOffsets) :
            Wide(lOffsets[i]) = WideSum(SubSeq(lSizes, 1, i - 1))

\* C7: a partition with an explicit offset uses that offset converted to
\* blocks; after every partition the running offset is that partition's offset
\* plus its size, so a partition without an explicit offset starts exactly at
\* the end of the partition before it.
C7_RunningOffsetIsEndOfPartition ==
    /\ \A i \in 1 .. Len(lOffsets) :
          /\ lParts[i].offset.some =>
                lOffsets[i] =
                    convert_to_blocks(lParts[i].offset.v,
                        IF lParts[i].offset_unit = NONE THEN "blocks"
                        ELSE lParts[i].offset_unit, block_size).val
          /\ (~lParts[i].offset.some /\ i = 1) => lOffsets[i] = U64Zero
          /\ (~lParts[i].offset.some /\ i > 1) =>
                Wide(lOffsets[i]) = WideAdd(Wide(lOffsets[i - 1]), Wide(lSizes[i - 1]))
    /\ Len(lOffsets) > 0 =>
          Wide(current_offset) =
              WideAdd(Wide(lOffsets[Len(lOffsets)]), Wide(lSizes[Len(lSizes)]))

\* C8: for every unit of the closed set and every positive magnitude,
\* convert_to_blocks yields floor(to_bytes(magnitude, unit) / block_size), and
\* the unit "blocks" yields the magnitude unchanged.
C8_ConversionConsistency ==
    (/\ cFn = "convert_to_blocks"
     /\ cUnit \in ClosedUnits
     /\ cSize > 0
     /\ cBlockSize > 0) =>
        /\ cResult.tag = "Ok"
        /\ cResult.val = IF cUnit = "blocks"
                         THEN U64FromNat(cSize)
                         ELSE U64DivSmall(to_bytes(cSize, cUnit), cBlockSize)

\* C9: every unit string outside the closed set makes the conversion fail with
\* an error that carries the offending unit string; no conversion treats an
\* unknown unit as some default unit.
C9_UnknownUnitRejected ==
    (cFn # NONE /\ cUnit # NONE /\ cUnit \notin ClosedUnits /\ cBlockSize > 0) =>
        /\ cResult.tag = "Err"
        /\ cResult.unit = cUnit

\* C10: the geometry of a partition whose declared size is zero or negative is
\* a geometry error: the layout never holds a block count, nor an advanced
\* running offset, for a partition of non-positive size.
C10_NonPositiveSizeRejected ==
    /\ \A i \in 1 .. lIdx : lParts[i].size > 0
    /\ (lStatus # "running" /\ lIdx < Len(lParts) /\ lParts[lIdx + 1].size <= 0
            /\ PartitionOffset(lParts[lIdx + 1]).tag = "Ok")
         => lStatus = "Err"

\* C6, C7 hold whenever no u64 addition wrapped: with overflow checks on, an
\* overflowing layout panics instead of yielding offsets.
LayoutExactUnderOverflowChecks ==
    overflow_checks => (C6_OffsetIsSumOfSizes /\ C7_RunningOffsetIsEndOfPartition)


(***************************************************************************)
(* Claims on the provision run (SpecProvision).                            *)
(***************************************************************************)
\* build_image returned Ok for image i of device d before step k of the run
ImageOkBefore(d, i, k) ==
    \E j \in 1 .. k - 1 :
        pLog[j].step = "image" /\ pLog[j].dev = d /\ pLog[j].img = i /\ pLog[j].r = "Ok"

\* build_storage_device returned Ok for device d before step k of the run
DeviceOkBefore(d, k) ==
    \E j \in 1 .. k - 1 :
        pLog[j].step = "device" /\ pLog[j].dev = d /\ pLog[j].r = "Ok"

\* before step k every image of every device was built, and so was every
\* device that has build arguments
AllBuiltBefore(k) ==
    \A d \in Devices :
        /\ \A i \in ImagesOf(d) : ImageOkBefore(d, i, k)
        /\ manifest.storage_devices[d].build_args # NONE => DeviceOkBefore(d, k)

\* C1: the storage-level build of a device starts only after build_image has
\* returned Ok for every image of that device.
C1_ImagesBuiltBeforeDevice ==
    \A k \in 1 .. Len(pLog) :
        pLog[k].step = "device" =>
            \A i \in ImagesOf(pLog[k].dev) : ImageOkBefore(pLog[k].dev, i, k)

\* a device with a FAT image and another image has had its storage-level build
C1_Witness ==
    \E k \in 1 .. Len(pLog) :
        /\ pLog[k].step = "device"
        /\ pLog[k].r = "Ok"
        /\ Cardinality(ImagesOf(pLog[k].dev)) >= 2
        /\ \E i \in ImagesOf(pLog[k].dev) : ImageKind(pLog[k].dev, i) = "fat"

\* C2: the first step that returns an error ends the run with that error: no
\* image build, device build or script execution starts after it, and the run
\* does not report success.
C2_FailFast ==
    \A k \in 1 .. Len(pLog) :
        pLog[k].r # "Ok" => (k = Len(pLog) /\ pResult = "Err")

\* an image build failed while an image, the device build, a device and the
\* script were still to come
C2_Witness ==
    /\ Len(pLog) > 0
    /\ pLog[Len(pLog)].step = "image"
    /\ pLog[Len(pLog)].r = "Err"
    /\ pImgTodo # {}
    /\ pDevTodo # {}
    /\ manifest.storage_devices[pCur].build_args # NONE
    /\ manifest.provision
    /\ pResult = "Err"

\* C3: the provisioning script is executed at most once and only after the
\* image builds and the device build of every device succeeded; the run
\* returns Ok only if every step succeeded and the script, when declared,
\* exited with status zero.
C3_ScriptLastAndOkOnlyOnSuccess ==
    /\ Cardinality({k \in 1 .. Len(pLog) : pLog[k].step = "script"}) <= 1
    /\ \A k \in 1 .. Len(pLog) : pLog[k].step = "script" => AllBuiltBefore(k)
    /\ pResult = "Ok" =>
          /\ \A k \in 1 .. Len(pLog) : pLog[k].r = "Ok"
          /\ AllBuiltBefore(Len(pLog) + 1)
          /\ manifest.provision =>
                \E k \in 1 .. Len(pLog) : pLog[k].step = "script" /\ pLog[k].out = "exit_0"

\* a run over two devices, one of them built, whose script exited with zero
C3_Witness ==
    /\ pResult = "Ok"
    /\ Cardinality(Devices) = 2
    /\ \E k \in 1 .. Len(pLog) : pLog[k].step = "device"
    /\ \E k \in 1 .. Len(pLog) : pLog[k].step = "image" /\ ImageKind(pLog[k].dev, pLog[k].img) = "fwup"
    /\ pLog[Len(pLog)].step = "script"
    /\ pLog[Len(pLog)].out = "exit_0"

(***************************************************************************)
(* C4: build_command attempts every image of every storage device even     *)
(* when earlier images fail, and it returns an error if and only if at     *)
(* least one image failed, with one entry per failed image that names the  *)
(* image and its device.                                                   *)
(***************************************************************************)
AllImages == UNION {{<<d, i>> : i \in ImagesOf(d)} : d \in Devices}

C4_BuildCollectsErrors ==
    bPc = "returned" =>
        /\ bAttempted = AllImages
        /\ (bResult.tag = "Err") <=> (bFailed # {})
        /\ Len(bResult.entries) = Cardinality(bFailed)
        /\ {<<bResult.entries[k].device, bResult.entries[k].image>> :
                k \in 1 .. Len(bResult.entries)} = bFailed

\* the command returned after an image failed, an image of another device
\* failed after it, and some image was processed successfully
C4_Witness ==
    /\ bPc = "returned"
    /\ bResult.tag = "Err"
    /\ Len(errors) >= 2
    /\ errors[1].device # errors[2].device
    /\ bAttempted # bFailed

(***************************************************************************)
(* The references of the manifest that validate_command has to check, and  *)
(* those of them that are missing: a reference to a file is missing when   *)
(* the file is found in no input directory, the provision_default          *)
(* reference when no profile of that name exists.                          *)
(***************************************************************************)
FileReferences ==
    LET m == vManifest
        sd == m.storage_devices
    IN  (IF m.runtime.provision # NONE
         THEN {[list |-> "files", device |-> "runtime", image |-> "provision", slot |-> 0,
                filename |-> m.runtime.provision]}
         ELSE {})
        \cup (IF m.provision.some
              THEN {[list |-> "provision", device |-> "", image |-> p, slot |-> 0,
                     filename |-> m.provision.profiles[p].script] :
                        p \in DOMAIN m.provision.profiles}
              ELSE {})
        \cup {[list |-> "device", device |-> d, image |-> "", slot |-> 0,
               filename |-> sd[d].build_args.template] :
                  d \in {x \in DOMAIN sd : sd[x].build_args.kind = "fwup"}}
        \cup UNION {
               {[list |-> "files", device |-> d, image |-> i, slot |-> 0,
                 filename |-> sd[d].images[i].filename] :
                    i \in {x \in DOMAIN sd[d].images : sd[d].images[x].kind = "string"}}
               \cup {[list |-> "files", device |-> d, image |-> i, slot |-> 0,
                      filename |-> sd[d].images[i].template] :
                         i \in {x \in DOMAIN sd[d].images : sd[d].images[x].kind = "fwup"}}
               \cup UNION {
                      {[list |-> "files", device |-> d, image |-> i, slot |-> k,
                        filename |-> sd[d].images[i].files[k]] :
                           k \in 1 .. Len(sd[d].images[i].files)} :
                      i \in {x \in DOMAIN sd[d].images : sd[d].images[x].kind = "fat"}} :
               d \in DOMAIN sd}

DefaultProfileDangling ==
    /\ vManifest.runtime.provision_default # NONE
    /\ \/ ~vManifest.provision.some
       \/ vManifest.runtime.provision_default \notin DOMAIN vManifest.provision.profiles

MissingReferences == {r \in FileReferences : r.filename \notin vExists}

MissingOf(list) == {r \in MissingReferences : r.list = list}

MissingCount == Cardinality(MissingReferences) + (IF DefaultProfileDangling THEN 1 ELSE 0)

(***************************************************************************)
(* C5: validate_command checks every reference of the manifest before it   *)
(* reports: it returns Ok if and only if nothing is missing, and otherwise *)
(* one error whose count is the number of missing references and which    *)
(* lists each of them.                                                     *)
(***************************************************************************)
C5_ValidateReportsAllMissing ==
    vPc = "returned" =>
        /\ (vResult.tag = "Ok") <=> (MissingCount = 0)
        /\ vResult.tag = "Err" =>
              /\ vResult.total = MissingCount
              /\ BagCardinality(vResult.files) = Cardinality(MissingOf("files"))
              /\ BagToSet(vResult.files) =
                     {<<r.device, r.image, r.filename>> : r \in MissingOf("files")}
              /\ BagCardinality(vResult.device) = Cardinality(MissingOf("device"))
              /\ BagToSet(vResult.device) =
                     {<<r.device, r.filename>> : r \in MissingOf("device")}
              /\ BagCardinality(vResult.provision) =
                     Cardinality(MissingOf("provision")) + (IF DefaultProfileDangling THEN 1 ELSE 0)
              /\ {e \in BagToSet(vResult.provision) : e.type # "Default profile reference"} =
                     {[type |-> r.image, filename |-> r.filename] : r \in MissingOf("provision")}
              /\ DefaultProfileDangling <=>
                     \E e \in BagToSet(vResult.provision) : e.type = "Default profile reference"

\* the command returned an error that lists a missing file of each list,
\* among them a file that one image references twice
C5_Witness ==
    /\ vPc = "returned"
    /\ vResult.tag = "Err"
    /\ MissingOf("provision") # {}
    /\ MissingOf("device") # {}
    /\ \E r \in MissingOf("files") : r.slot = 3
    /\ \E r \in MissingOf("files") : r.device = "runtime"
    /\ \E d \in DOMAIN vManifest.storage_devices :
          \E i \in DOMAIN vManifest.storage_devices[d].images :
             vManifest.storage_devices[d].images[i].kind = "string"
    /\ vResult.total >= 6

(***************************************************************************)
(* Claims on the environment resolution (SpecResolve).                     *)
(***************************************************************************)
\* the reference list of the profile, empty when profile.envs is None
RefList == IF rEnvs.some THEN rEnvs.list ELSE <<>>

\* a named reference that has no shared block to refer to
Undefined(e) ==
    e.kind = "named" /\ (~named_envs.some \/ e.name \notin DOMAIN named_envs.blocks)

\* the pairs an entry of the list refers to
PairsOf(e) == IF e.kind = "inline" THEN e.pairs ELSE named_envs.blocks[e.name]

\* the entries of the list that hold key k
EntriesWith(k) == {i \in 1 .. Len(RefList) : k \in DOMAIN PairsOf(RefList[i])}

Contains(message, text) == \E i \in 1 .. Len(message) : message[i] = text

\* C11: resolve_envs inserts the pairs of every entry of the list in order:
\* the result holds exactly the union of the keys of all referenced entries,
\* and a key held by more than one entry has the value of the latest of them.
C11_LastWins ==
    rResult.tag = "Ok" =>
        /\ DOMAIN rResult.map = {k \in EnvKeys : EntriesWith(k) # {}}
        /\ \A k \in DOMAIN rResult.map :
              LET last == CHOOSE i \in EntriesWith(k) : \A j \in EntriesWith(k) : j <= i
              IN  rResult.map[k] = PairsOf(RefList[last])[k]

\* a shared block and a later inline mapping disagree on a key, and the
\* resolution returned
C11_Witness ==
    /\ rResult.tag = "Ok"
    /\ Len(RefList) = 2
    /\ RefList[1].kind = "named"
    /\ RefList[2].kind = "inline"
    /\ \E k \in DOMAIN PairsOf(RefList[1]) \cap DOMAIN PairsOf(RefList[2]) :
          PairsOf(RefList[1])[k] # PairsOf(RefList[2])[k]
    /\ DOMAIN rResult.map = EnvKeys

\* C12: when the list holds a named reference without a matching shared block
\* (no such block, or no provision.envs at all), resolve_envs does not return
\* Ok; it returns an error that names the missing block and the profile, and
\* no partially resolved mapping.
C12_UndefinedBlockError ==
    (rResult.tag # NONE /\ \E i \in 1 .. Len(RefList) : Undefined(RefList[i])) =>
        /\ rResult.tag = "Err"
        /\ rResult.map = <<>>
        /\ \E i \in 1 .. Len(RefList) :
              Undefined(RefList[i]) /\ Contains(rResult.message, RefList[i].name)
        /\ Contains(rResult.message, rProfile)

(***************************************************************************)
(* Claims on the variable expansion (SpecExpand, SpecExpandFair).          *)
(***************************************************************************)
\* a value in which every ${NAME} occurrence whose NAME is set is replaced by
\* the variable's value and every other occurrence is left as written
RECURSIVE SubstituteEvery(_)
SubstituteEvery(s) ==
    LET start == FindOpen(s)
        end == FindClose(s, start)
        var == env_var(VarName(s, start, end))
    IN  IF start = 0 \/ end = 0
        THEN s
        ELSE SubSeq(s, 1, start - 1)
                 \o (IF var.some THEN var.v ELSE SubSeq(s, start, end))
                 \o SubstituteEvery(SubSeq(s, end + 1, Len(s)))

\* C13: expansion replaces every ${NAME} occurrence of a value whose NAME is
\* set in the process environment by the variable's value and leaves every
\* occurrence whose NAME is not set as written; the expanded mapping has the
\* keys of the input mapping.
C13_ExpandsEverySetVariable ==
    ePc = "returned" =>
        /\ DOMAIN expanded = DOMAIN eEnvs
        /\ \A k \in DOMAIN eEnvs : expanded[k] = SubstituteEvery(eEnvs[k])

\* C14: expansion never loops: for every value and every content of the
\* process environment, expand_env_vars returns.
C14_ExpansionTerminates == <>(ePc = "returned")

(***************************************************************************)
(* The derived device environment.                                         *)
(***************************************************************************)
Derived == lStatus = "Ok"

NamedPartitions == {i \in 1 .. Len(lParts) : lParts[i].name.some}

\* C15: in the derived environment the IMAGE_<NAME> value of every image is
\* an absolute path: the image's output filename under the build directory
\* if and only if the image is an object with build arguments, and otherwise
\* its filename under the input directory.
C15_ImagePathsAbsolute ==
    Derived =>
        \A n \in DOMAIN dImages :
            LET image == dImages[n]
                value == env_vars[ImageKey(n)].text
            IN  /\ ImageKey(n) \in DOMAIN env_vars
                /\ is_absolute(value)
                /\ IF image.kind = "object" /\ image.build_args
                   THEN value = build_dir \o image.out
                   ELSE value = dInputDir \o image.out

PartitionSuffixes == {"_OFFSET", "_BLOCKS", "_OFFSET_REDUND", "_EXPAND"}

\* C16: the derived environment contains one PARTITION_<NAME>_OFFSET and one
\* PARTITION_<NAME>_BLOCKS key per named partition (the name uppercased,
\* hyphens and spaces replaced by underscores), holding that partition's own
\* computed offset and size in blocks; unnamed partitions contribute no key.
C16_PartitionOffsetAndBlocks ==
    Derived =>
        /\ \A i \in NamedPartitions :
            LET name == lParts[i].name.v
            IN  /\ PartitionKey(name, "_OFFSET") \in DOMAIN env_vars
                /\ PartitionKey(name, "_BLOCKS") \in DOMAIN env_vars
                /\ env_vars[PartitionKey(name, "_OFFSET")] = Num(lOffsets[i])
                /\ env_vars[PartitionKey(name, "_BLOCKS")] = Num(lSizes[i])
        /\ \A k \in DOMAIN env_vars :
            k[1] = "AVOCADO_PARTITION_" =>
                \E i \in NamedPartitions, suffix \in PartitionSuffixes :
                    k = PartitionKey(lParts[i].name.v, suffix)

\* C17: for every named partition the derived environment contains
\* PARTITION_<NAME>_OFFSET_REDUND (the redundant offset converted to blocks)
\* exactly when the partition declares a redundant offset, and
\* PARTITION_<NAME>_EXPAND exactly when the partition's expand flag is set.
C17_RedundantAndExpandKeys ==
    Derived =>
        \A i \in NamedPartitions :
            LET p == lParts[i]
                redund == PartitionKey(p.name.v, "_OFFSET_REDUND")
                expand == PartitionKey(p.name.v, "_EXPAND")
            IN  /\ redund \in DOMAIN env_vars <=> p.offset_redundant.some
                /\ p.offset_redundant.some =>
                       env_vars[redund] = Num(RedundantOffset(p).val)
                /\ expand \in DOMAIN env_vars <=> p.expand.some

\* the orders in which a HashMap can yield the keys S
Orders(S) ==
    {order \in [1 .. Cardinality(S) -> S] :
        \A i, j \in DOMAIN order : order[i] = order[j] => i = j}

\* the image loop run in a given order
RECURSIVE ImagesInOrder(_, _)
ImagesInOrder(m, order) ==
    IF order = <<>>
    THEN m
    ELSE ImagesInOrder(Insert(m, ImageKey(Head(order)), Str(image_path(dImages[Head(order)]))),
                       Tail(order))

\* C18: deriving the device environment twice from the same manifest, input
\* directory and os-release content produces identical mappings, also when
\* image or partition names map to the same derived key: the mapping this
\* derivation returns agrees with the one of a derivation whose image loop
\* runs in any other order (the rest of the derivation has one order only).
C18_DerivationDeterministic ==
    Derived =>
        \A order \in Orders(DOMAIN dImages) :
            LET other == ImagesInOrder(EmptyEnv, order)
            IN  \A k \in DOMAIN other : k \in DOMAIN env_vars /\ env_vars[k] = other[k]

DiskKeys == {<<"AVOCADO_DISK_BLOCK_SIZE">>, <<"AVOCADO_DISK_UUID">>}

OsKeys ==
    {<<"AVOCADO_OS_VERSION">>, <<"AVOCADO_OS_CODENAME">>, <<"AVOCADO_OS_DESCRIPTION">>,
     <<"AVOCADO_OS_AUTHOR">>, <<"AVOCADO_OS_PLATFORM">>, <<"AVOCADO_OS_ARCHITECTURE">>}

\* C19: the only variables a per-image fwup build adds to the packager's
\* environment are DISK_BLOCK_SIZE and DISK_UUID, each set if and only if it
\* is declared on that image, and no IMAGE_*, PARTITION_* or OS_* key; the
\* device-level fwup build receives the full derived environment, in which
\* DISK_BLOCK_SIZE and DISK_UUID are present if and only if declared on the
\* device.
C19_FwupEnvironments ==
    /\ fPc \in {"device", "Err", "spawned"} =>
        /\ DOMAIN image_cmd_env \subseteq DiskKeys
        /\ <<"AVOCADO_DISK_BLOCK_SIZE">> \in DOMAIN image_cmd_env <=> fImage.block_size.some
        /\ <<"AVOCADO_DISK_UUID">> \in DOMAIN image_cmd_env <=> fImage.uuid.some
        /\ fImage.block_size.some =>
               image_cmd_env[<<"AVOCADO_DISK_BLOCK_SIZE">>] = Num(U64FromNat(fImage.block_size.v))
        /\ fImage.uuid.some => image_cmd_env[<<"AVOCADO_DISK_UUID">>] = Str(fImage.uuid.v)
    /\ fPc = "spawned" =>
        /\ device_cmd_env = env_vars
        /\ OsKeys \subseteq DOMAIN device_cmd_env
        /\ \A n \in DOMAIN dImages : ImageKey(n) \in DOMAIN device_cmd_env
        /\ \A i \in NamedPartitions :
               PartitionKey(lParts[i].name.v, "_OFFSET") \in DOMAIN device_cmd_env
        /\ <<"AVOCADO_DISK_BLOCK_SIZE">> \in DOMAIN device_cmd_env <=> lBlockSize.some
        /\ <<"AVOCADO_DISK_UUID">> \in DOMAIN device_cmd_env <=> dUuid.some
        /\ lBlockSize.some =>
               device_cmd_env[<<"AVOCADO_DISK_BLOCK_SIZE">>] = Num(U64FromNat(lBlockSize.v))
        /\ dUuid.some => device_cmd_env[<<"AVOCADO_DISK_UUID">>] = Str(dUuid.v)

\* a device build was spawned for a device that declares a block size and no
\* uuid, after the build of an image that declares a uuid and no block size
C19_Witness ==
    /\ fPc = "spawned"
    /\ lBlockSize.some /\ ~dUuid.some
    /\ fImage.uuid.some /\ ~fImage.block_size.some
    /\ DOMAIN dImages # {}
    /\ NamedPartitions # {}

(***************************************************************************)
(* The FAT build.                                                          *)
(***************************************************************************)
FatEntries == create_fat_manifest(fFiles)

Destinations == {output_path(FatEntries[i]) : i \in DOMAIN FatEntries}

\* C20: after a successful build from a file list the set of files listed in
\* the image is exactly the set of declared destination paths, each holding
\* the full content of its declared input file; a bare-name entry uses the
\* same name for input and output, and the intermediate directories of a
\* destination path are created or reused: each is a directory of the image.
C20_FatRoundTrip ==
    fResult = "Ok" =>
        /\ list_fat_files(fat_fs) = Destinations
        /\ \A i \in DOMAIN fFiles :
            LET entry == FatEntries[i]
                destination == output_path(entry)
            IN  /\ fat_fs[destination].data = fInputs[input_path(entry)].v
                /\ fFiles[i].kind = "string" => destination = <<input_path(entry)>>
                /\ \A k \in 1 .. Len(destination) - 1 :
                       /\ SubSeq(destination, 1, k) \in DOMAIN fat_fs
                       /\ fat_fs[SubSeq(destination, 1, k)].dir

(***************************************************************************)
(* build_fat_image.                                                        *)
(***************************************************************************)
\* the units of the closed set that convert_size_to_mb has an arm for
FatSizeUnits ==
    {"bytes", "kilobytes", "kibibytes", "megabytes", "mebibytes", "gigabytes", "gibibytes"}

\* C21: the container file of a FAT image built in a provision run has
\* exactly the declared size: its length in bytes equals the declared size
\* converted to bytes with the declared unit, for every supported unit and
\* positive size.
C21_ContainerHasDeclaredSize ==
    (container_len.some /\ biSize > 0 /\ biUnit \in FatSizeUnits) =>
        container_len.v = to_bytes(biSize, biUnit)

EmptyFatImages ==
    {<<d, i>> \in UNION {{<<d, i>> : i \in DOMAIN vManifest.storage_devices[d].images} :
                           d \in DOMAIN vManifest.storage_devices} :
        LET image == vManifest.storage_devices[d].images[i]
        IN  image.kind = "fat" /\ image.files = <<>> /\ image.size = 0}

\* C22: an image with build kind "fat", no files and declared size 0 is
\* rejected: validation reports an error that names that specific image.
C22_ZeroSizeFatRejected ==
    vPc = "returned" =>
        \A di \in EmptyFatImages :
            /\ vResult.tag = "Err"
            /\ \E entry \in BagToSet(vResult.files) : entry[1] = di[1] /\ entry[2] = di[2]

(***************************************************************************)
(* The provisioning script (SpecScript).                                   *)
(***************************************************************************)
\* the lines written to a stream, in the order they were written
Written(pipe) == [i \in 1..Len(pipe) |-> pipe[i].n]

\* the reader of a stream ended at a line it could not read
ReadFailed(pipe, read, handle) == handle = "done" /\ read > 0 /\ ~pipe[read].utf8

\* C23: both reader threads are joined before the exit status is
\* inspected, and when the run reports success or failure every line the
\* script wrote to either stream has been emitted, in the order in which
\* it was written to that stream.
C23_OutputEmittedBeforeResult ==
    /\ sPc = "status" => stdout_handle = "done" /\ stderr_handle = "done"
    /\ sPc = "returned" =>
        /\ stdout_sink = Written(stdout_pipe)
        /\ stderr_sink = Written(stderr_pipe)

\* C24: a run fails distinguishably when the executable is not found, when
\* it exits non-zero (the error carries the exit code) and when reading its
\* output fails; a read failure on either stream is never reported as
\* success.
C24_ProcessOutcomes ==
    sPc = "returned" =>
        /\ ~provision_exists => sResult.tag = "NotFound"
        /\ sResult.tag = "ExitCode" => sResult.code = exit_code /\ ~success
        /\ (\/ ReadFailed(stdout_pipe, stdout_read, stdout_handle)
            \/ ReadFailed(stderr_pipe, stderr_read, stderr_handle))
               => sResult.tag # "Ok"

(***************************************************************************)
(* Build arguments at device level (SpecProvision).                        *)
(***************************************************************************)
\* the steps of the run that are the storage-level build of a device with
\* Fat build arguments
FatDeviceSteps ==
    {k \in 1 .. Len(pLog) :
        /\ pLog[k].step = "device"
        /\ manifest.storage_devices[pLog[k].dev].build_args = "fat"}

\* the packager fwup was started in a step that ended this way
PackagerInvoked(o) == o \in {"fwup_not_found", "fwup_exit_0", "fwup_exit_1"}

\* C25: the storage-level build of a device whose build arguments are of
\* kind fat returns an error without invoking the packager, and the
\* provision run fails with it.
C25_FatDeviceRejected ==
    \A k \in FatDeviceSteps :
        /\ pLog[k].r = "Err"
        /\ ~PackagerInvoked(pLog[k].out)
        /\ k = Len(pLog)
        /\ pResult = "Err"

\* a run has reached the storage-level build of a device with Fat build
\* arguments after it built that device's images
C25_Witness ==
    \E k \in FatDeviceSteps : k > 1 /\ pLog[k - 1].step = "image" /\ pPc = "returned"

(***************************************************************************)
(* The OS metadata of the device environment (SpecOsRelease).              *)
(***************************************************************************)
Quotes == {DQ, SQ}

\* the lines of the os-release file with a key
LinesOf(key) == {k \in 1 .. Len(os_release.lines) : os_release.lines[k].key = key}

\* text is value without quote characters (and trailing blanks) that
\* surround it: only those are removed, and a value that is not quoted, or
\* is quoted once around a text without quotes, loses exactly its quotes
QuotesRemoved(value, text) ==
    /\ \E i \in 1 .. Len(value) + 1 : \E j \in 0 .. Len(value) :
          /\ text = SubSeq(value, i, j)
          /\ \A k \in 1 .. i - 1 : value[k] \in Quotes
          /\ \A k \in j + 1 .. Len(value) : value[k] \in Quotes \cup {" "}
    /\ (\A k \in 1 .. Len(value) : value[k] \notin Quotes \cup {" "}) => text = value
    /\ \A q \in Quotes :
          (/\ Len(value) >= 2
           /\ value[1] = q
           /\ value[Len(value)] = q
           /\ \A k \in 2 .. Len(value) - 1 : value[k] \notin Quotes)
              => text = SubSeq(value, 2, Len(value) - 1)

\* the variable is the value of a line with the key, without its quotes, or
\* empty when no line has the key
FromOsRelease(variable, key) ==
    IF LinesOf(key) = {}
    THEN os_env[variable].text = <<>>
    ELSE \E k \in LinesOf(key) : QuotesRemoved(os_release.lines[k].value, os_env[variable].text)

\* C26: the device-level build fails before the packager is started when
\* os-release is missing or has no VERSION_ID line; otherwise OS_VERSION is
\* the VERSION_ID value without its surrounding quotes, and OS_CODENAME,
\* OS_DESCRIPTION and OS_AUTHOR are the values of VERSION_CODENAME,
\* PRETTY_NAME and VENDOR_NAME, empty when the key is absent.
C26_OsMetadata ==
    oPc \in {"fwup", "returned"} =>
        IF os_release.state = "missing" \/ LinesOf("VERSION_ID") = {}
        THEN oPc = "returned" /\ oResult = "Err" /\ oFwup = NONE
        ELSE os_release.state = "file" =>
                /\ FromOsRelease(<<"AVOCADO_OS_VERSION">>, "VERSION_ID")
                /\ FromOsRelease(<<"AVOCADO_OS_CODENAME">>, "VERSION_CODENAME")
                /\ FromOsRelease(<<"AVOCADO_OS_DESCRIPTION">>, "PRETTY_NAME")
                /\ FromOsRelease(<<"AVOCADO_OS_AUTHOR">>, "VENDOR_NAME")

\* the packager has run with a version read from a quoted VERSION_ID and
\* no VENDOR_NAME line
C26_Witness ==
    /\ oPc = "returned"
    /\ oFwup = "exit_0"
    /\ LinesOf("VENDOR_NAME") = {}
    /\ \E k \in LinesOf("VERSION_ID") : os_release.lines[k].value = <<DQ, "1", DQ>>
    /\ os_env[<<"AVOCADO_OS_VERSION">>].text = <<"1">>

(***************************************************************************)
(* The schedule of a provision run (SpecProvision).                        *)
(***************************************************************************)
\* C28 as stated: a two-phase schedule over the whole manifest: no image
\* build starts after the storage-level build of some device has started.
C28_TwoPhaseOverManifest ==
    \A j \in 1 .. Len(pLog) : \A k \in j + 1 .. Len(pLog) :
        pLog[j].step = "device" => pLog[k].step # "image"

\* C28 (amended): the two phases are per device: the build of every image of
\* a device has started before that device's storage-level build starts,
\* and no image build of a device starts after that device's storage-level
\* build has started.
C28_TwoPhasePerDevice ==
    /\ \A k \in 1 .. Len(pLog) :
          pLog[k].step = "device" =>
              \A i \in ImagesOf(pLog[k].dev) :
                  \E j \in 1 .. k - 1 :
                      pLog[j].step = "image" /\ pLog[j].dev = pLog[k].dev /\ pLog[j].img = i
    /\ \A j \in 1 .. Len(pLog) : \A k \in j + 1 .. Len(pLog) :
          (pLog[j].step = "device" /\ pLog[k].step = "image") => pLog[k].dev # pLog[j].dev

\* an image of one device is built after the storage-level build of another
\* device, which followed that device's own images
C28_Witness ==
    \E j \in 2 .. Len(pLog) : \E k \in j + 1 .. Len(pLog) :
        /\ pLog[j - 1].step = "image"
        /\ pLog[j].step = "device"
        /\ pLog[k].step = "image"
        /\ pLog[k].dev # pLog[j].dev

(***************************************************************************)
(* Totality of the geometry computation (SpecConv).                        *)
(***************************************************************************)
\* the conversion multiplies and divides: the unit is a byte unit
DividesByBlockSize == BlocksUnitShift(ToLower(cUnit)) >= 0

\* the byte count of the declared size does not fit in a u64
ByteCountOverflows ==
    /\ DividesByBlockSize
    /\ U64MulPow(U64FromI64(cSize), 1024, BlocksUnitShift(ToLower(cUnit))).overflow

\* C29: convert_to_blocks returns a block count or an error for every
\* input: it never aborts, and a block size of 0 and a byte count that does
\* not fit in 64 bits both yield an error.
C29_GeometryTotal ==
    cFn = "convert_to_blocks" =>
        /\ cResult.tag \in {"Ok", "Err"}
        /\ (DividesByBlockSize /\ cBlockSize = 0) => cResult.tag = "Err"
        /\ ByteCountOverflows => cResult.tag = "Err"

(***************************************************************************)
(* Block ranges of the partitions of a device (SpecLayout).                *)
(***************************************************************************)
\* a < b for wide numbers, compared from limb k down
RECURSIVE WideLess(_, _, _)
WideLess(a, b, k) ==
    IF k = 0 THEN FALSE
    ELSE IF a[k] # b[k] THEN a[k] < b[k]
    ELSE WideLess(a, b, k - 1)

WideLeq(a, b) == a = b \/ WideLess(a, b, 5)

\* the end offset + size of the block range of partition i, not wrapped
RangeEnd(i) == WideAdd(Wide(lOffsets[i]), Wide(lSizes[i]))

\* the block ranges of partitions i and j have no block in common
RangesDisjoint(i, j) ==
    \/ lSizes[i] = U64Zero
    \/ lSizes[j] = U64Zero
    \/ WideLeq(RangeEnd(i), Wide(lOffsets[j]))
    \/ WideLeq(RangeEnd(j), Wide(lOffsets[i]))

\* C30: the block ranges [offset, offset + size) of two distinct partitions
\* of a device never overlap, and the computed offsets never decrease along
\* the partition list, for every mix of explicit and implicit offsets.
C30_RangesDisjointAndOrdered ==
    \A i \in 1 .. Len(lOffsets) : \A j \in i + 1 .. Len(lOffsets) :
        /\ RangesDisjoint(i, j)
        /\ WideLeq(Wide(lOffsets[i]), Wide(lOffsets[j]))

=============================================================================
